---- MODULE Spec2Model ----
(***************************************************************************)
(* shop-haul: the server's two caches, its screenshot fetcher, and the     *)
(* gallery page.                                                           *)
(*                                                                         *)
(*  - the in-process dataset cache of GET /api/shops (shopsCache,          *)
(*    getShopsPayload): specification SpecShops;                           *)
(*  - the on-disk screenshot cache of GET /api/screenshot (readCacheEntry, *)
(*    writeCacheEntry): specifications SpecShot and SpecShotEnv;           *)
(*  - fetchScreenshotBuffer over a provider list: specification SpecFetch; *)
(*  - the page's filters, paging and auto-loading (public/app.js):         *)
(*    specification SpecPage.                                              *)
(*  - the maintenance scripts: mapLimit (specification SpecMapLimit) and   *)
(*    one run of prune-unavailable-shops (specification SpecPrune).        *)
(*                                                                         *)
(* The server is one Node.js event loop.  A request handler, an I/O        *)
(* completion and a clock reading are macrotasks; the reactions of settled *)
(* promises are microtasks, which run to completion, in the order they     *)
(* were queued, before the next macrotask.  The model keeps that queue     *)
(* (micro) explicitly.                                                     *)
(***************************************************************************)
EXTENDS Integers, Sequences, FiniteSets, TLC

\* ------------------------------------------------------------------ bounds
MaxReqs == 3        \* /api/shops requests of one run
MaxTime == 4        \* last clock value
MaxShotReqs == 2    \* /api/screenshot requests of one run
MaxShotTime == 3    \* last clock value of a screenshot run
MaxProviders == 2   \* longest provider list given to fetchScreenshotBuffer
MaxShops == 37      \* largest dataset the page receives
MaxRaf == 4         \* most requestAnimationFrame callbacks waiting for a frame
MaxElapsed == 5     \* last clock value of a preload
MaxImgEvents == 3   \* most load and error events of one Image
MaxSortLen == 3     \* longest list given to one sortShops call
MaxItems == 4       \* longest array given to one mapLimit call
MaxLimit == 3       \* largest limit given to one mapLimit call
MaxPruneShops == 2  \* largest database the prune script scans

\* ------------------------------------------------------- program constants
\* Date.now() is counted in ticks: of half a TTL in the dataset cache (the TTL,
\* Math.max(5, seconds) * 1000 ms, is two ticks), of a whole TTL in the
\* screenshot cache (the TTL, Math.max(1, hours) * 3600000 ms, is one tick).
shopsCacheTtlMs == 2
screenshotTtlMs == 1

NULL == 0

\* const PAGE_SIZE = 12
PAGE_SIZE == 12

\* preloadImageWithFallback's timeoutMs = 7000, in ticks of a third of it
timeoutMs == 3

Reqs == 1..MaxReqs

VARIABLES
    now,        \* Date.now()
    \* --- dataset cache (shopsCache and the promises around it)
    payload,    \* shopsCache.payload: NULL, or the snapshot built by fetch n
    fetchedAt,  \* shopsCache.fetchedAt
    inflight,   \* shopsCache.inflight: NULL, or the promise of fetch n
    builds,     \* builds[n]: the n-th buildShopsPayload() call: pending, ok, fail
    waiters,    \* requests suspended in an await, in registration order
    micro,      \* the microtask queue
    rq,         \* the /api/shops requests
    \* --- screenshot cache (the two artifacts of one cache key, and requests)
    metaFile,   \* <key>.json
    binFile,    \* <key>.bin
    nPuts,      \* writeCacheEntry calls so far
    sq,         \* the /api/screenshot requests
    \* --- fetchScreenshotBuffer, one call over a provider list
    screenshotProviders, \* the list: what each provider does when it is asked
    provIdx,    \* the position of the for loop in the list
    lastError,  \* the local variable lastError
    contacted,  \* the providers that fetch(upstream) was called on, in order
    fetched,    \* the outcome of the call: running, a return value, an Error
    \* --- the page (public/app.js)
    allShops, filteredShops, activeCategory, activeTag, activeSummary,
    activeSort, currentPage, isAutoLoading,
    gallery,    \* the cards of galleryEl, as renderGallery left them
    raf,        \* callbacks passed to requestAnimationFrame, not yet run
    frame,      \* callbacks of the animation frame that is running
    layout,     \* what the layout reads of maybeAutoLoad and
                \* ensureViewportFilled give
    loadPc,     \* where load() is
    advances,   \* history: page increments since the latest user action
                \* began that ensureViewportFilled did not make
    settled,    \* history: that action was a click on load-more, a scroll, a
                \* resize or a sentinel intersection, and no callback was
                \* waiting when it began
    \* --- preloadImageWithFallback, one call
    preload,    \* the Image, the timer, the flag and the promise of the call
    \* --- sortShops, one call
    sorting,    \* the arrays, the argument, activeSort and the return value
    \* --- the cache directory, by path
    keyed,      \* who wrote each file last and what each URL's reads met
    \* --- the maintenance scripts
    ml,         \* mapLimit, one call: idx, out, the workers and the fn calls
    pruning     \* prune-unavailable-shops, one run: its mapLimit call, the
                \* checks, the Notion updates and the report

shopsVars == <<payload, fetchedAt, inflight, builds, waiters, micro, rq>>
shotVars == <<metaFile, binFile, nPuts, sq>>
fetchVars == <<screenshotProviders, provIdx, lastError, contacted, fetched>>
pageVars == <<allShops, filteredShops, activeCategory, activeTag, activeSummary,
              activeSort, currentPage, isAutoLoading, gallery, raf, frame,
              layout, loadPc>>
clientVars == <<pageVars, advances, settled>>
scriptVars == <<ml, pruning>>
helperVars == <<preload, sorting, keyed, scriptVars>>
vars == <<now, payload, fetchedAt, inflight, builds, waiters, micro, rq,
          metaFile, binFile, nPuts, sq, fetchVars, clientVars, helperVars>>

\* ================================================================ dataset
IdleReq == [pc |-> "idle", via |-> "none", fetch |-> NULL,
            status |-> 0, tag |-> "none", body |-> NULL]

\* A cache that never ages.
isFreshCache_ignoresAge == payload # NULL /\ fetchedAt # 0

\* isFreshCache(): a snapshot exists and is younger than the TTL.
isFreshCache ==
    IF payload = NULL \/ fetchedAt = 0 THEN FALSE
    ELSE now - fetchedAt < shopsCacheTtlMs

\* getShopsPayload, line 179: `if (shopsCache.inflight)`.
JoinsInflight_never == FALSE
JoinsInflight == inflight # NULL

\* The x-shops-cache value getShopsPayload returns with the payload.
SourceOf_refresh(via) == "notion-refresh"
SourceOf(via) ==
    CASE via = "fresh" -> "memory-fresh"
      [] via = "join" -> "memory-inflight"
      [] via = "refresh" -> "notion-refresh"

\* res.json(payload) of the try branch of GET /api/shops.
Respond200(r, via, snapshot) ==
    [rq[r] EXCEPT !.pc = "done", !.via = via, !.status = 200,
                  !.tag = SourceOf(via), !.body = snapshot]

\* The handler's catch: `if (shopsCache.payload)`.
HasPrevious_fresh == isFreshCache
HasPrevious_never == FALSE
HasPrevious == payload # NULL

\* The catch branch of GET /api/shops: the old snapshot, or 500 {error, details}.
RespondFailure(r) ==
    IF HasPrevious
    THEN [rq[r] EXCEPT !.pc = "done", !.status = 200,
                       !.tag = "memory-stale-on-error", !.body = payload]
    ELSE [rq[r] EXCEPT !.pc = "done", !.status = 500,
                       !.tag = "none", !.body = NULL]

\* A request reaches getShopsPayload (GET /api/shops, a macrotask).
Arrive(r) ==
    /\ micro = <<>>
    /\ rq[r].pc = "idle"
    /\ IF isFreshCache
       THEN /\ rq' = [rq EXCEPT ![r] = Respond200(r, "fresh", payload)]
            /\ UNCHANGED <<inflight, builds, waiters>>
       ELSE IF JoinsInflight
       THEN /\ rq' = [rq EXCEPT ![r] = [@ EXCEPT !.pc = "await", !.via = "join",
                                                  !.fetch = inflight]]
            /\ waiters' = Append(waiters, r)
            /\ UNCHANGED <<inflight, builds>>
       ELSE /\ builds' = Append(builds, "pending")
            /\ inflight' = Len(builds) + 1
            /\ rq' = [rq EXCEPT ![r] = [@ EXCEPT !.pc = "await", !.via = "refresh",
                                                  !.fetch = Len(builds) + 1]]
            /\ waiters' = Append(waiters, r)
    /\ UNCHANGED <<now, payload, fetchedAt, micro, shotVars, fetchVars, clientVars, helperVars>>

\* The collaborator's promise settles (an I/O completion, a macrotask): the
\* reaction registered with .then() is queued.
Settle(f, outcome) ==
    /\ micro = <<>>
    /\ f \in 1..Len(builds)
    /\ builds[f] = "pending"
    /\ builds' = [builds EXCEPT ![f] = outcome]
    /\ micro' = <<[kind |-> "then", f |-> f, r |-> 0]>>
    /\ UNCHANGED <<now, payload, fetchedAt, inflight, waiters, rq, shotVars, fetchVars, clientVars, helperVars>>

\* shopsCache.fetchedAt after the .then() reaction of a fetch that ended `outcome`.
FetchedAtAfter_always(outcome) == now
FetchedAtAfter(outcome) == IF outcome = "ok" THEN now ELSE fetchedAt

\* The .then((payload) => {...}) reaction: runs its callback on success only; a
\* rejection passes through to .finally().
ThenCb ==
    /\ micro # <<>>
    /\ Head(micro).kind = "then"
    /\ LET f == Head(micro).f IN
       /\ payload' = IF builds[f] = "ok" THEN f ELSE payload
       /\ fetchedAt' = FetchedAtAfter(builds[f])
       /\ micro' = Append(Tail(micro), [kind |-> "finally", f |-> f, r |-> 0])
    /\ UNCHANGED <<now, inflight, builds, waiters, rq, shotVars, fetchVars, clientVars, helperVars>>

\* The slot released by the success callback instead of .finally().
FinallyCb_onSuccessOnly ==
    /\ micro # <<>>
    /\ Head(micro).kind = "finally"
    /\ LET f == Head(micro).f
           mine(r) == rq[r].fetch = f
           theirs(r) == rq[r].fetch # f
           resume(r) == [kind |-> "resume", f |-> f, r |-> r]
           woken == SelectSeq(waiters, mine)
       IN /\ inflight' = IF builds[f] = "ok" THEN NULL ELSE inflight
          /\ micro' = Tail(micro) \o [i \in 1..Len(woken) |-> resume(woken[i])]
          /\ waiters' = SelectSeq(waiters, theirs)
    /\ UNCHANGED <<now, payload, fetchedAt, builds, rq, shotVars, fetchVars, clientVars, helperVars>>

\* The .finally(() => { shopsCache.inflight = null }) reaction; the promise the
\* requests await settles after it, and their continuations are queued in the
\* order the awaits were registered.
FinallyCb ==
    /\ micro # <<>>
    /\ Head(micro).kind = "finally"
    /\ LET f == Head(micro).f
           mine(r) == rq[r].fetch = f
           theirs(r) == rq[r].fetch # f
           resume(r) == [kind |-> "resume", f |-> f, r |-> r]
           woken == SelectSeq(waiters, mine)
       IN /\ inflight' = NULL
          /\ micro' = Tail(micro) \o [i \in 1..Len(woken) |-> resume(woken[i])]
          /\ waiters' = SelectSeq(waiters, theirs)
    /\ UNCHANGED <<now, payload, fetchedAt, builds, rq, shotVars, fetchVars, clientVars, helperVars>>

\* A request's `await shopsCache.inflight` continues: with the payload (the
\* handler answers 200) or with the rejection (the handler's catch).
Resume ==
    /\ micro # <<>>
    /\ Head(micro).kind = "resume"
    /\ LET f == Head(micro).f
           r == Head(micro).r
       IN rq' = [rq EXCEPT ![r] = IF builds[f] = "ok"
                                  THEN Respond200(r, rq[r].via, f)
                                  ELSE RespondFailure(r)]
    /\ micro' = Tail(micro)
    /\ UNCHANGED <<now, payload, fetchedAt, inflight, builds, waiters, shotVars, fetchVars, clientVars, helperVars>>

\* Date.now() advances.  A tick is half a TTL (seconds at least), so none falls
\* inside the drain of the microtask queue.
Tick ==
    /\ micro = <<>>
    /\ now < MaxTime
    /\ now' = now + 1
    /\ UNCHANGED <<shopsVars, shotVars, fetchVars, clientVars, helperVars>>

\* ============================================================= screenshots
ShotReqs == 1..MaxShotReqs

\* screenshotProviders: the list has one provider.
NumProviders == 1

\* The artifacts of the cache key.  `put` names the writeCacheEntry call the
\* bytes come from (0: none); a file that a write has opened and not yet filled
\* holds a strict prefix of that call's bytes (at first, nothing).
NoMeta == [kind |-> "none", contentType |-> "", fetchedAt |-> 0, put |-> 0]
PartialMeta(p) == [kind |-> "garbage", contentType |-> "", fetchedAt |-> 0, put |-> p]
FullMeta(ct, at, p) == [kind |-> "json", contentType |-> ct, fetchedAt |-> at, put |-> p]
NoBin == [kind |-> "none", put |-> 0, full |-> FALSE]
PartialBin(p) == [kind |-> "data", put |-> p, full |-> FALSE]
FullBin(p) == [kind |-> "data", put |-> p, full |-> TRUE]
Unread == [kind |-> "unread", contentType |-> "", fetchedAt |-> 0, put |-> 0]
UnreadBin == [kind |-> "unread", put |-> 0, full |-> FALSE]

\* String(x).toLowerCase() on the content types of the model.
ToLowerCase(ct) == IF ct = "IMAGE/PNG" THEN "image/png" ELSE ct

\* .startsWith("image/")
StartsWithImage(ct) == ct \in {"image/png", "image/jpeg"}

\* What fs.readFile / JSON.parse of the try block do with the two files:
\* a missing file or unparsable metadata throws.
ReadThrows(meta, bin) ==
    \/ meta.kind \in {"none", "garbage"}
    \/ bin.kind = "none"

\* The age test of readCacheEntry: `ageMs > screenshotTtlMs` is expired.
Expired_never(at) == FALSE
Expired_atTtl(at) == now - at >= screenshotTtlMs
Expired(at) == now - at > screenshotTtlMs

\* The try block of readCacheEntry on the contents read: "null", or "entry".
TryRead(meta, bin) ==
    IF meta.fetchedAt = 0 \/ meta.contentType = "" THEN "null"
    ELSE IF ~StartsWithImage(ToLowerCase(meta.contentType)) THEN "null"
    ELSE IF Expired(meta.fetchedAt) THEN "null"
    ELSE "entry"

\* readCacheEntry with its catch: "null", "entry", or "raise" (an exception
\* leaving the function).
readCacheEntry_nocatch(meta, bin) ==
    IF ReadThrows(meta, bin) THEN "raise" ELSE TryRead(meta, bin)
readCacheEntry(meta, bin) ==
    IF ReadThrows(meta, bin) THEN "null" ELSE TryRead(meta, bin)

\* req.query.u as the requests of the model send it: absent, or a string.
Queries ==
    {[isString |-> FALSE, text |-> ""]}
    \cup [isString : {TRUE},
          text : {"  ", "shop", "ftp://shop.example/", "https://shop.example/",
                  " https://shop.example/ "}]

\* String.prototype.trim on these strings.
Trim(text) ==
    CASE text = "  " -> ""
      [] text = " https://shop.example/ " -> "https://shop.example/"
      [] OTHER -> text

\* typeof req.query.u === "string" ? req.query.u.trim() : ""
TargetUrlOf(q) == IF q.isString THEN Trim(q.text) ELSE ""

\* new URL(value).protocol, or "TypeError" when the constructor throws.
ProtocolOf(value) ==
    CASE value = "https://shop.example/" -> "https:"
      [] value = "ftp://shop.example/" -> "ftp:"
      [] OTHER -> "TypeError"

\* isWebUrl: the constructor's exception is caught and gives false.
isWebUrl_anyUrl(value) == ProtocolOf(value) # "TypeError"
isWebUrl(value) == ProtocolOf(value) \in {"http:", "https:"}

IdleShot == [pc |-> "idle", targetUrl |-> "",
             metaRead |-> Unread, binRead |-> UnreadBin,
             prov |-> 0, lastError |-> "none",
             put |-> 0, contentType |-> "", fetchedAt |-> 0, wmeta |-> 0, wbin |-> 0,
             status |-> 0, body |-> NoBin]

\* The requests are numbered in the order they arrive.
ArrivesNext(r) == IF r = 1 THEN TRUE ELSE sq[r - 1].pc # "idle"

\* isWebUrl fails: 400, nothing else happens.
ShotArriveInvalid(r, q) ==
    /\ sq[r].pc = "idle"
    /\ ArrivesNext(r)
    /\ ~isWebUrl(TargetUrlOf(q))
    /\ sq' = [sq EXCEPT ![r] = [@ EXCEPT !.pc = "done", !.status = 400,
                                          !.targetUrl = TargetUrlOf(q)]]
    /\ UNCHANGED <<now, metaFile, binFile, nPuts, shopsVars, fetchVars, clientVars, helperVars>>

\* A valid URL: readCacheEntry starts its two reads (Promise.all).
ShotArrive(r, q) ==
    /\ sq[r].pc = "idle"
    /\ ArrivesNext(r)
    /\ isWebUrl(TargetUrlOf(q))
    /\ sq' = [sq EXCEPT ![r] = [@ EXCEPT !.pc = "read",
                                          !.targetUrl = TargetUrlOf(q)]]
    /\ UNCHANGED <<now, metaFile, binFile, nPuts, shopsVars, fetchVars, clientVars, helperVars>>

\* readCacheEntry has returned: the handler serves the entry, or goes on to
\* fetchScreenshotBuffer; an exception out of readCacheEntry would reach the
\* handler's catch (502).
CacheDecision(r, meta, bin) ==
    LET cached == readCacheEntry(meta, bin) IN
    CASE cached = "entry" ->
           [sq[r] EXCEPT !.pc = "done", !.status = 200,
                         !.contentType = meta.contentType, !.body = bin,
                         !.metaRead = Unread, !.binRead = UnreadBin]
      [] cached = "null" ->
           [sq[r] EXCEPT !.pc = "fetch", !.prov = 1,
                         !.metaRead = Unread, !.binRead = UnreadBin]
      [] cached = "raise" ->
           [sq[r] EXCEPT !.pc = "done", !.status = 502, !.lastError = "read",
                         !.metaRead = Unread, !.binRead = UnreadBin]

\* fs.readFile(metaPath, "utf8") completes.  Promise.all settles when the
\* second of the two reads has completed, or at once when a read fails (the
\* file is missing); readCacheEntry then goes on.
ReadMeta(r) ==
    /\ sq[r].pc = "read"
    /\ sq[r].metaRead = Unread
    /\ sq' = [sq EXCEPT ![r] = IF sq[r].binRead = UnreadBin /\ metaFile.kind # "none"
                               THEN [@ EXCEPT !.metaRead = metaFile]
                               ELSE CacheDecision(r, metaFile, sq[r].binRead)]
    /\ UNCHANGED <<now, metaFile, binFile, nPuts, shopsVars, fetchVars, clientVars, helperVars>>

\* fs.readFile(binPath) completes; likewise.
ReadBin(r) ==
    /\ sq[r].pc = "read"
    /\ sq[r].binRead = UnreadBin
    /\ sq' = [sq EXCEPT ![r] = IF sq[r].metaRead = Unread /\ binFile.kind # "none"
                               THEN [@ EXCEPT !.binRead = binFile]
                               ELSE CacheDecision(r, sq[r].metaRead, binFile)]
    /\ UNCHANGED <<now, metaFile, binFile, nPuts, shopsVars, fetchVars, clientVars, helperVars>>

\* What a provider answers in the runs explored: a network exception, or a
\* response with a status (ok or not), a content-type header (an image type in
\* the provider's own spelling, or a page) and a body (empty or not).
Responses ==
    {[kind |-> "throw", ok |-> FALSE, header |-> "", empty |-> TRUE]}
    \cup [kind : {"response"}, ok : BOOLEAN,
          header : {"IMAGE/PNG", "text/html"}, empty : BOOLEAN]

\* response.headers.get("content-type") || "image/jpeg"
ContentTypeOf(resp) == IF resp.header = "" THEN "image/jpeg" ELSE resp.header

\* One pass of the loop body of fetchScreenshotBuffer: "accept", or the
\* lastError it leaves.
Attempt_noTypeCheck(resp) ==
    IF resp.kind = "throw" THEN "exception"
    ELSE IF ~resp.ok THEN "Provider failed"
    ELSE IF resp.empty THEN "empty image"
    ELSE "accept"
Attempt(resp) ==
    IF resp.kind = "throw" THEN "exception"
    ELSE IF ~resp.ok THEN "Provider failed"
    ELSE IF ~StartsWithImage(ToLowerCase(ContentTypeOf(resp))) THEN "non-image content"
    ELSE IF resp.empty THEN "empty image"
    ELSE "accept"

\* The provider tried by request r answers.  Accepted: fetchScreenshotBuffer
\* returns and writeCacheEntry is called (meta.fetchedAt = Date.now(), the two
\* fs.writeFile calls start).  Rejected: the next provider, or, after the last
\* one, `throw new Error(lastError)` and the handler's 502.
ProviderResponds(r, resp) ==
    /\ sq[r].pc = "fetch"
    /\ IF Attempt(resp) = "accept"
       THEN /\ nPuts' = nPuts + 1
            /\ sq' = [sq EXCEPT ![r] = [@ EXCEPT !.pc = "write", !.put = nPuts + 1,
                                                  !.contentType = ContentTypeOf(resp),
                                                  !.fetchedAt = now]]
       ELSE /\ nPuts' = nPuts
            /\ sq' = [sq EXCEPT ![r] =
                        IF sq[r].prov < NumProviders
                        THEN [@ EXCEPT !.prov = @ + 1, !.lastError = Attempt(resp)]
                        ELSE [@ EXCEPT !.pc = "done", !.status = 502,
                                       !.lastError = Attempt(resp), !.prov = 0]]
    /\ UNCHANGED <<now, metaFile, binFile, shopsVars, fetchVars, clientVars, helperVars>>

\* ---- fetchScreenshotBuffer as a function of the provider list
\* What a provider of the list does when its turn comes: buildProviderUrl
\* gives no URL, or fetch(upstream) throws or answers; the header may be absent.
Behaviours ==
    {[kind |-> "nourl", ok |-> FALSE, header |-> "", empty |-> TRUE],
     [kind |-> "throw", ok |-> FALSE, header |-> "", empty |-> TRUE]}
    \cup [kind : {"response"}, ok : BOOLEAN,
          header : {"", "IMAGE/PNG", "text/html"}, empty : BOOLEAN]

\* let lastError = "Unknown screenshot error."
UnknownError == "Unknown screenshot error."

\* The assignments to lastError: each rejection overwrites the one before.
LastErrorAfter_first(prev, rejection) ==
    IF prev = UnknownError THEN rejection ELSE prev
LastErrorAfter(prev, rejection) == rejection

Running == [kind |-> "running", contentType |-> "", empty |-> TRUE, message |-> ""]

\* One turn of the for loop: `continue` without a request when the provider
\* has no URL; else the request and, on "accept", the return.
LoopTurn ==
    /\ fetched = Running
    /\ provIdx <= Len(screenshotProviders)
    /\ LET b == screenshotProviders[provIdx] IN
       IF b.kind = "nourl"
       THEN /\ provIdx' = provIdx + 1
            /\ UNCHANGED <<lastError, contacted, fetched>>
       ELSE /\ contacted' = Append(contacted, provIdx)
            /\ IF Attempt(b) = "accept"
               THEN /\ fetched' = [kind |-> "return", contentType |-> ContentTypeOf(b),
                                   empty |-> b.empty, message |-> ""]
                    /\ UNCHANGED <<lastError, provIdx>>
               ELSE /\ lastError' = LastErrorAfter(lastError, Attempt(b))
                    /\ provIdx' = provIdx + 1
                    /\ UNCHANGED fetched
    /\ UNCHANGED <<now, screenshotProviders, shopsVars, shotVars, clientVars, helperVars>>

\* The list is exhausted: throw new Error(lastError).
LoopEnd ==
    /\ fetched = Running
    /\ provIdx > Len(screenshotProviders)
    /\ fetched' = [kind |-> "throw", contentType |-> "", empty |-> TRUE,
                   message |-> lastError]
    /\ UNCHANGED <<now, screenshotProviders, provIdx, lastError, contacted,
                   shopsVars, shotVars, clientVars, helperVars>>

\* Both fs.writeFile calls have completed: Promise.all settles, writeCacheEntry
\* returns and the handler sends the fetched image.
WriteDone(r) ==
    [sq[r] EXCEPT !.pc = "done", !.status = 200, !.body = FullBin(sq[r].put),
                  !.fetchedAt = 0, !.prov = 0, !.wmeta = 0, !.wbin = 0]

\* writeCacheEntry has been called and its Promise.all has not settled.
Writing_early(r) == sq[r].pc \in {"fetch", "write"}
Writing(r) == sq[r].pc = "write"

\* fs.writeFile(binPath, body): the file is opened (created or truncated) ...
BinOpen(r) ==
    /\ Writing(r)
    /\ sq[r].wbin = 0
    /\ binFile' = PartialBin(sq[r].put)
    /\ sq' = [sq EXCEPT ![r] = [@ EXCEPT !.wbin = 1]]
    /\ UNCHANGED <<now, metaFile, nPuts, shopsVars, fetchVars, clientVars, helperVars>>

\* ... and then filled.
BinWrite(r) ==
    /\ Writing(r)
    /\ sq[r].wbin = 1
    /\ binFile' = FullBin(sq[r].put)
    /\ sq' = [sq EXCEPT ![r] = IF sq[r].wmeta = 2 THEN WriteDone(r)
                               ELSE [@ EXCEPT !.wbin = 2]]
    /\ UNCHANGED <<now, metaFile, nPuts, shopsVars, fetchVars, clientVars, helperVars>>

\* fs.writeFile(metaPath, JSON.stringify(meta), "utf8"): opened ...
MetaOpen(r) ==
    /\ Writing(r)
    /\ sq[r].wmeta = 0
    /\ metaFile' = PartialMeta(sq[r].put)
    /\ sq' = [sq EXCEPT ![r] = [@ EXCEPT !.wmeta = 1]]
    /\ UNCHANGED <<now, binFile, nPuts, shopsVars, fetchVars, clientVars, helperVars>>

\* ... and then filled.
MetaWrite(r) ==
    /\ Writing(r)
    /\ sq[r].wmeta = 1
    /\ metaFile' = FullMeta(sq[r].contentType, sq[r].fetchedAt, sq[r].put)
    /\ sq' = [sq EXCEPT ![r] = IF sq[r].wbin = 2 THEN WriteDone(r)
                               ELSE [@ EXCEPT !.wmeta = 2]]
    /\ UNCHANGED <<now, binFile, nPuts, shopsVars, fetchVars, clientVars, helperVars>>

\* The cache directory cannot be written (it was removed, the disk is full):
\* both fs.writeFile calls fail as they open their files, which stay as they
\* are; Promise.all rejects, writeCacheEntry throws and the handler's catch
\* answers 502 although the provider delivered an image.
WriteFail(r) ==
    /\ Writing(r)
    /\ sq[r].wbin = 0
    /\ sq[r].wmeta = 0
    /\ sq' = [sq EXCEPT ![r] = [@ EXCEPT !.pc = "done", !.status = 502,
                                          !.lastError = "write failed",
                                          !.fetchedAt = 0, !.prov = 0]]
    /\ UNCHANGED <<now, metaFile, binFile, nPuts, shopsVars, fetchVars, clientVars, helperVars>>

\* Date.now() advances during a screenshot run.
ShotTick ==
    /\ now < MaxShotTime
    /\ now' = now + 1
    /\ UNCHANGED <<shopsVars, shotVars, fetchVars, clientVars, helperVars>>

\* The cache directory outlives the server and is not its own.  A server can
\* start on an entry put by an earlier run (put 1, at time 1), or on damage: the
\* files deleted (the README's way to force fresh screenshots), the metadata
\* unparsable, without fetchedAt, without contentType, or with a content type
\* that is no image.
LeftoverMeta == FullMeta("IMAGE/PNG", 1, 1)
LeftoverBin == FullBin(1)

DamagedMetas ==
    {NoMeta, PartialMeta(0), FullMeta("image/jpeg", 0, 0), FullMeta("", 1, 0),
     FullMeta("text/html", 1, 0)}

\* ================================================================ the page
Min(a, b) == IF a < b THEN a ELSE b

\* The shops of a dataset are numbered in the order the server sends them;
\* what the page reads of shop i: category, tags, notes, title (by its rank
\* under localeCompare) and editedAt (as a time).  Several shops share a
\* title or a time.
CategoryOf(i) == IF i % 6 = 0 THEN "Home" ELSE IF i % 2 = 0 THEN "fashion " ELSE "Fashion"
TagsOf(i) == IF i % 4 = 1 THEN <<>> ELSE IF i % 4 = 0 THEN <<"New", "Sale">> ELSE <<"sale">>
NotesOf(i) == IF i % 5 = 0 THEN "" ELSE "Cozy knits"
TitleOf(i) == i % 7
EditedAtOf(i) == (3 * i) % 5

\* normalizeText: String(value || "").toLowerCase().trim()
normalizeText(value) ==
    CASE value \in {"Fashion", "fashion "} -> "fashion"
      [] value = "Home" -> "home"
      [] value \in {"Sale", "sale"} -> "sale"
      [] value = "New" -> "new"
      [] value = "Cozy knits" -> "cozy knits"
      [] value = " Knit" -> "knit"
      [] OTHER -> value

\* String.prototype.includes on the normalized notes and queries of the model.
Includes(text, query) == query = "" \/ (text = "cozy knits" /\ query = "knit")

\* The comparator of sortShops for the active sort: negative, zero, positive.
Compare(sort, a, b) ==
    CASE sort = "az" -> TitleOf(a) - TitleOf(b)
      [] sort = "za" -> TitleOf(b) - TitleOf(a)
      [] sort = "oldest" -> EditedAtOf(a) - EditedAtOf(b)
      [] OTHER -> EditedAtOf(b) - EditedAtOf(a)

\* Array.prototype.sort is stable: x goes before the first element that the
\* comparator puts strictly after it.
RECURSIVE InsertSorted_beforeEquals(_, _, _)
InsertSorted_beforeEquals(sort, x, list) ==
    IF list = <<>> THEN <<x>>
    ELSE IF Compare(sort, x, Head(list)) <= 0 THEN <<x>> \o list
    ELSE <<Head(list)>> \o InsertSorted_beforeEquals(sort, x, Tail(list))

RECURSIVE InsertSorted(_, _, _)
InsertSorted(sort, x, list) ==
    IF list = <<>> THEN <<x>>
    ELSE IF Compare(sort, x, Head(list)) < 0 THEN <<x>> \o list
    ELSE <<Head(list)>> \o InsertSorted(sort, x, Tail(list))

RECURSIVE SortFrom(_, _, _)
SortFrom(sort, list, sorted) ==
    IF list = <<>> THEN sorted
    ELSE SortFrom(sort, Tail(list), InsertSorted(sort, Head(list), sorted))

\* sortShops: a sorted copy.
sortShops(shops, sort) == SortFrom(sort, shops, <<>>)

\* computeFilteredShops: the value it assigns to filteredShops.
computeFilteredShops(shops, category, tag, summary, sort) ==
    LET summaryQuery == normalizeText(summary)
        InCategory(i) ==
            category = "all" \/ normalizeText(CategoryOf(i)) = normalizeText(category)
        HasTag(i) ==
            tag = "all"
            \/ \E k \in 1..Len(TagsOf(i)) : normalizeText(TagsOf(i)[k]) = normalizeText(tag)
        HasNotes(i) ==
            summaryQuery = "" \/ Includes(normalizeText(NotesOf(i)), summaryQuery)
        Keep(i) == InCategory(i) /\ HasTag(i) /\ HasNotes(i)
    IN sortShops(SelectSeq(shops, Keep), sort)

visibleCount(list, page) == Min(Len(list), page * PAGE_SIZE)
visibleShops(list, page) == SubSeq(list, 1, visibleCount(list, page))
hasMoreShops_always(list, page) == TRUE
hasMoreShops(list, page) == visibleCount(list, page) < Len(list)

\* The two layout reads.  "short": scrollHeight <= innerHeight + 120, which
\* makes innerHeight + scrollY >= scrollHeight - 260 true as well; "near": only
\* the latter; "far": neither.
Layouts == {"short", "near", "far"}
nearBottom(l) == l \in {"short", "near"}
shortPage(l) == l = "short"

\* The document does not get shorter when cards are appended.
Grown(l) == CASE l = "short" -> Layouts [] l = "near" -> {"near", "far"} [] OTHER -> {"far"}
\* Scrolling moves the viewport and leaves both heights alone.
Scrolled(l) == IF l = "short" THEN {"short"} ELSE {"near", "far"}

\* The part of the page's state that a handler works on.
Cur == [currentPage |-> currentPage, isAutoLoading |-> isAutoLoading,
        gallery |-> gallery, raf |-> raf, layout |-> layout, advances |-> advances,
        settled |-> settled]

Becomes(h) ==
    /\ currentPage' = h.currentPage
    /\ isAutoLoading' = h.isAutoLoading
    /\ gallery' = h.gallery
    /\ raf' = h.raf
    /\ layout' = h.layout
    /\ advances' = h.advances
    /\ settled' = h.settled

\* renderGallery: the cards are rebuilt from visibleShops() and the post-render
\* checks are handed to requestAnimationFrame; `after` are the layouts the
\* rebuilt document can have.
renderGallery_keepCards(g, list, after) ==
    {[g EXCEPT !.raf = Append(@, "afterRender"), !.layout = l] : l \in after}
renderGallery(g, list, after) ==
    {[g EXCEPT !.gallery = visibleShops(list, g.currentPage),
               !.raf = Append(@, "afterRender"),
               !.layout = l] : l \in after}

\* refreshAndRender, once computeFilteredShops has given `list`.
refreshAndRender_keepPage(g, resetPage, list) == renderGallery(g, list, Layouts)
refreshAndRender(g, resetPage, list) ==
    renderGallery([g EXCEPT !.currentPage = IF resetPage THEN 1 ELSE @], list, Layouts)

loadMore(g) ==
    IF ~hasMoreShops(filteredShops, g.currentPage) THEN {g}
    ELSE renderGallery([g EXCEPT !.currentPage = @ + 1], filteredShops, Grown(g.layout))

\* The flag's reset handed to requestAnimationFrame before loadMore is called.
maybeAutoLoad_clearFirst(g) ==
    IF g.isAutoLoading THEN {g}
    ELSE IF ~hasMoreShops(filteredShops, g.currentPage) THEN {g}
    ELSE IF ~nearBottom(g.layout) THEN {g}
    ELSE {[h EXCEPT !.advances = @ + 1] :
             h \in loadMore([g EXCEPT !.isAutoLoading = TRUE,
                                      !.raf = Append(@, "clearFlag")])}
maybeAutoLoad_unguarded(g) ==
    IF ~hasMoreShops(filteredShops, g.currentPage) THEN {g}
    ELSE IF ~nearBottom(g.layout) THEN {g}
    ELSE {[h EXCEPT !.raf = Append(@, "clearFlag"), !.advances = @ + 1] :
             h \in loadMore([g EXCEPT !.isAutoLoading = TRUE])}
maybeAutoLoad(g) ==
    IF g.isAutoLoading THEN {g}
    ELSE IF ~hasMoreShops(filteredShops, g.currentPage) THEN {g}
    ELSE IF ~nearBottom(g.layout) THEN {g}
    ELSE {[h EXCEPT !.raf = Append(@, "clearFlag"), !.advances = @ + 1] :
             h \in loadMore([g EXCEPT !.isAutoLoading = TRUE])}

ensureViewportFilled_never(g) == {g}
ensureViewportFilled(g) ==
    IF ~hasMoreShops(filteredShops, g.currentPage) THEN {g}
    ELSE IF ~shortPage(g.layout) THEN {g}
    ELSE loadMore(g)

\* A handler runs when no animation frame is running; the model stops taking
\* events when MaxRaf callbacks wait.
Idle == frame = <<>> /\ Len(raf) + 2 <= MaxRaf
\* A click on load-more, a scroll, a resize or a sentinel intersection begins.
Fresh == [Cur EXCEPT !.advances = 0, !.settled = (raf = <<>>)]
\* Another action begins: a change of the filters or the sort, a reset, the
\* dataset's arrival.
Other == [Cur EXCEPT !.advances = 0, !.settled = FALSE]

\* click on load-more.
ClickLoadMore ==
    /\ Idle
    /\ \E h \in loadMore(Fresh) :
          Becomes([h EXCEPT !.advances = h.currentPage - currentPage])
    /\ UNCHANGED <<allShops, filteredShops, activeCategory, activeTag, activeSummary,
                   activeSort, frame, loadPc>>
    /\ UNCHANGED <<now, shopsVars, shotVars, fetchVars, helperVars>>

\* A scroll event.
Scroll ==
    /\ Idle
    /\ \E l \in Scrolled(layout) : \E h \in maybeAutoLoad([Fresh EXCEPT !.layout = l]) :
          Becomes(h)
    /\ UNCHANGED <<allShops, filteredShops, activeCategory, activeTag, activeSummary,
                   activeSort, frame, loadPc>>
    /\ UNCHANGED <<now, shopsVars, shotVars, fetchVars, helperVars>>

\* A resize event.
Resize ==
    /\ Idle
    /\ \E l \in Layouts : \E h \in maybeAutoLoad([Fresh EXCEPT !.layout = l]) :
          Becomes(h)
    /\ UNCHANGED <<allShops, filteredShops, activeCategory, activeTag, activeSummary,
                   activeSort, frame, loadPc>>
    /\ UNCHANGED <<now, shopsVars, shotVars, fetchVars, helperVars>>

\* The IntersectionObserver reports the sentinel (shown while shops remain)
\* as intersecting.
SentinelIntersects ==
    /\ Idle
    /\ hasMoreShops(filteredShops, currentPage)
    /\ \E h \in maybeAutoLoad(Fresh) : Becomes(h)
    /\ UNCHANGED <<allShops, filteredShops, activeCategory, activeTag, activeSummary,
                   activeSort, frame, loadPc>>
    /\ UNCHANGED <<now, shopsVars, shotVars, fetchVars, helperVars>>

\* The values the filter controls send.
Categories == {"all", "Fashion"}
TagChoices == {"all", "Sale"}
Summaries == {"", " Knit"}
Sorts == {"recent", "az", "za", "oldest"}

\* A filter or sort handler after its assignment: refreshAndRender(true).
Refiltered(category, tag, summary, sort) ==
    /\ filteredShops' = computeFilteredShops(allShops, category, tag, summary, sort)
    /\ \E h \in refreshAndRender(Other, TRUE, filteredShops') : Becomes(h)
    /\ UNCHANGED <<allShops, frame, loadPc>>
    /\ UNCHANGED <<now, shopsVars, shotVars, fetchVars, helperVars>>

\* change on the category filter.
SetCategory(v) ==
    /\ Idle
    /\ v # activeCategory
    /\ activeCategory' = v
    /\ Refiltered(v, activeTag, activeSummary, activeSort)
    /\ UNCHANGED <<activeTag, activeSummary, activeSort>>

\* change on the tag filter.
SetTag(v) ==
    /\ Idle
    /\ v # activeTag
    /\ activeTag' = v
    /\ Refiltered(activeCategory, v, activeSummary, activeSort)
    /\ UNCHANGED <<activeCategory, activeSummary, activeSort>>

\* input on the text filter.
SetSummary(v) ==
    /\ Idle
    /\ v # activeSummary
    /\ activeSummary' = v
    /\ Refiltered(activeCategory, activeTag, v, activeSort)
    /\ UNCHANGED <<activeCategory, activeTag, activeSort>>

\* change on the sort select.
SetSort(v) ==
    /\ Idle
    /\ v # activeSort
    /\ activeSort' = v
    /\ Refiltered(activeCategory, activeTag, activeSummary, v)
    /\ UNCHANGED <<activeCategory, activeTag, activeSummary>>

\* click on reset: resetFilters.
ResetFilters ==
    /\ Idle
    /\ activeCategory' = "all"
    /\ activeTag' = "all"
    /\ activeSummary' = ""
    /\ Refiltered("all", "all", "", activeSort)
    /\ UNCHANGED activeSort

\* The browser starts an animation frame: the callbacks registered so far
\* are the ones it runs; those registered while it runs wait for the next.
AnimationFrame ==
    /\ frame = <<>>
    /\ raf # <<>>
    /\ frame' = raf
    /\ raf' = <<>>
    /\ UNCHANGED <<allShops, filteredShops, activeCategory, activeTag, activeSummary,
                   activeSort, currentPage, isAutoLoading, gallery, layout, loadPc,
                   advances, settled>>
    /\ UNCHANGED <<now, shopsVars, shotVars, fetchVars, helperVars>>

\* The callback of renderGallery: maybeAutoLoad(); ensureViewportFilled();
RunAfterRender ==
    /\ frame # <<>>
    /\ Head(frame) = "afterRender"
    /\ frame' = Tail(frame)
    /\ \E m \in maybeAutoLoad(Cur) : \E h \in ensureViewportFilled(m) : Becomes(h)
    /\ UNCHANGED <<allShops, filteredShops, activeCategory, activeTag, activeSummary,
                   activeSort, loadPc>>
    /\ UNCHANGED <<now, shopsVars, shotVars, fetchVars, helperVars>>

\* The callback of maybeAutoLoad: isAutoLoading = false.
RunClearFlag ==
    /\ frame # <<>>
    /\ Head(frame) = "clearFlag"
    /\ frame' = Tail(frame)
    /\ isAutoLoading' = FALSE
    /\ UNCHANGED <<allShops, filteredShops, activeCategory, activeTag, activeSummary,
                   activeSort, currentPage, gallery, raf, layout, loadPc, advances, settled>>
    /\ UNCHANGED <<now, shopsVars, shotVars, fetchVars, helperVars>>

\* The dataset sizes the runs explored receive.
DatasetSizes == {0, 1, PAGE_SIZE, PAGE_SIZE + 1, 2 * PAGE_SIZE + 1, MaxShops}

\* load(): /api/shops has answered; allShops = data.shops || [] and the
\* warm-up is awaited.
DatasetArrives(n) ==
    /\ loadPc = "fetch"
    /\ frame = <<>>
    /\ allShops' = [i \in 1..n |-> i]
    /\ loadPc' = "preload"
    /\ UNCHANGED <<filteredShops, activeCategory, activeTag, activeSummary, activeSort,
                   currentPage, isAutoLoading, gallery, raf, frame, layout, advances, settled>>
    /\ UNCHANGED <<now, shopsVars, shotVars, fetchVars, helperVars>>

\* load(): the warm-up has settled; refreshAndRender(true).
PreloadSettles ==
    /\ loadPc = "preload"
    /\ Idle
    /\ loadPc' = "ready"
    /\ filteredShops' = computeFilteredShops(allShops, activeCategory, activeTag,
                                             activeSummary, activeSort)
    /\ \E h \in refreshAndRender(Other, TRUE, filteredShops') : Becomes(h)
    /\ UNCHANGED <<allShops, activeCategory, activeTag, activeSummary, activeSort, frame>>
    /\ UNCHANGED <<now, shopsVars, shotVars, fetchVars, helperVars>>

\* load(): the request failed or answered an error; the catch shows it.
LoadFails ==
    /\ loadPc = "fetch"
    /\ frame = <<>>
    /\ loadPc' = "failed"
    /\ UNCHANGED <<allShops, filteredShops, activeCategory, activeTag, activeSummary,
                   activeSort, currentPage, isAutoLoading, gallery, raf, frame, layout,
                   advances, settled>>
    /\ UNCHANGED <<now, shopsVars, shotVars, fetchVars, helperVars>>

\* ======================================================= the image preloader
\* A URL string is kept as its origin and the segments of its path, so that
\* what the src getter of an Image returns can be computed.
NoUrl == [origin |-> "", path |-> <<>>]
Truthy(u) == u # NoUrl

\* The url field of a shop: the server passes most through new URL(), and the
\* target unwrapped from a builtwith.com link as it was written.
ShopUrls == {"https://shop.example/", "http://www.shop.example/sale", "https://a b/"}

\* new URL(url) throws on a host with a space in it.
Parses(url) == url # "https://a b/"
hostnameOf(url) ==
    IF url = "https://shop.example/" THEN "shop.example"
    ELSE IF url = "http://www.shop.example/sale" THEN "www.shop.example"
    ELSE ""

encodeURIComponent(url) ==
    IF url = "https://shop.example/" THEN "https%3A%2F%2Fshop.example%2F"
    ELSE IF url = "http://www.shop.example/sale"
    THEN "http%3A%2F%2Fwww.shop.example%2Fsale"
    ELSE "https%3A%2F%2Fa%20b%2F"

thumUrlFor(url) ==
    [origin |-> "https://image.thum.io",
     path |-> <<"get", "width", "3308", "crop", "1900", "noanimate",
                encodeURIComponent(url)>>]

screenshotOfUrlFor(url) ==
    IF Parses(url) /\ hostnameOf(url) # ""
    THEN [origin |-> "https://screenshotof.com", path |-> <<hostnameOf(url)>>]
    ELSE thumUrlFor(url)

\* Reading img.src gives the URL as the parser serialises it: without the
\* "." segments of the path, and with each ".." having taken the segment
\* before it.
RECURSIVE WithoutDots(_, _)
WithoutDots(done, rest) ==
    IF rest = <<>> THEN done
    ELSE LET x == Head(rest)
         IN WithoutDots(IF x = "." THEN done
                        ELSE IF x = ".."
                        THEN (IF done = <<>> THEN done
                              ELSE SubSeq(done, 1, Len(done) - 1))
                        ELSE Append(done, x),
                        Tail(rest))
Href(u) == [u EXCEPT !.path = WithoutDots(<<>>, u.path)]

\* Before the call.
PreIdle ==
    [pc |-> "idle", primaryUrl |-> NoUrl, fallbackUrl |-> NoUrl,
     src |-> NoUrl,        \* img.src, as read
     settled |-> FALSE,
     timer |-> "none",     \* none, armed, fired, cleared
     pending |-> FALSE,    \* the Image is fetching img.src
     resolves |-> 0,       \* calls of resolve()
     finishes |-> 0,       \* calls of finish()
     switches |-> 0,       \* assignments of fallbackUrl to img.src
     loads |-> 0,          \* load events
     errors |-> 0,         \* error events
     elapsed |-> 0]        \* time since the call

finish_unguarded(p) ==
    [p EXCEPT !.finishes = @ + 1, !.settled = TRUE, !.resolves = @ + 1]
finish(p) ==
    IF p.settled THEN [p EXCEPT !.finishes = @ + 1]
    ELSE [p EXCEPT !.finishes = @ + 1, !.settled = TRUE, !.resolves = @ + 1]

setTimeout_never(p) == p
setTimeout(p) == [p EXCEPT !.timer = "armed"]
clearTimeout(p) == IF p.timer = "armed" THEN [p EXCEPT !.timer = "cleared"] ELSE p

\* fallbackUrl && img.src !== fallbackUrl
SwitchesToFallback_always(p) == TRUE
SwitchesToFallback(p) == Truthy(p.fallbackUrl) /\ p.src # p.fallbackUrl

onload(p) == finish(clearTimeout(p))
onerror(p) ==
    IF SwitchesToFallback(p)
    THEN [p EXCEPT !.src = Href(p.fallbackUrl), !.switches = @ + 1,
                   !.pending = TRUE]
    ELSE finish(clearTimeout(p))

\* preloadImageWithFallback(screenshotOfUrlFor(shop.url), thumUrlFor(shop.url)):
\* the executor of the promise runs to its end.
PreloadCall(url) ==
    /\ preload.pc = "idle"
    /\ preload' = [setTimeout(PreIdle) EXCEPT
                      !.pc = "called",
                      !.primaryUrl = screenshotOfUrlFor(url),
                      !.fallbackUrl = thumUrlFor(url),
                      !.src = Href(screenshotOfUrlFor(url)),
                      !.pending = TRUE]
    /\ UNCHANGED <<now, shopsVars, shotVars, fetchVars, clientVars, sorting, keyed, scriptVars>>

\* The Image has loaded img.src.
ImgLoad ==
    /\ preload.pending
    /\ preload.loads + preload.errors < MaxImgEvents
    /\ preload' = onload([preload EXCEPT !.pending = FALSE, !.loads = @ + 1])
    /\ UNCHANGED <<now, shopsVars, shotVars, fetchVars, clientVars, sorting, keyed, scriptVars>>

\* The Image has failed to load img.src.
ImgError ==
    /\ preload.pending
    /\ preload.loads + preload.errors < MaxImgEvents
    /\ preload' = onerror([preload EXCEPT !.pending = FALSE, !.errors = @ + 1])
    /\ UNCHANGED <<now, shopsVars, shotVars, fetchVars, clientVars, sorting, keyed, scriptVars>>

\* The timer is due.
TimerFires ==
    /\ preload.timer = "armed"
    /\ preload.elapsed >= timeoutMs
    /\ preload' = finish([preload EXCEPT !.timer = "fired"])
    /\ UNCHANGED <<now, shopsVars, shotVars, fetchVars, clientVars, sorting, keyed, scriptVars>>

\* Time passes; a timer that is due runs first.
PreTick ==
    /\ preload.pc = "called"
    /\ preload.elapsed < MaxElapsed
    /\ ~(preload.timer = "armed" /\ preload.elapsed >= timeoutMs)
    /\ preload' = [preload EXCEPT !.elapsed = @ + 1]
    /\ UNCHANGED <<now, shopsVars, shotVars, fetchVars, clientVars, sorting, keyed, scriptVars>>

\* ============================================================ one sortShops
\* Shops with equal titles (1 and 8) and with equal edit times (1 and 6).
TiedShops == {1, 2, 6, 8}

\* The lists of distinct shops given to a call.
SortInputs ==
    {q \in UNION {[1..n -> TiedShops] : n \in 0..MaxSortLen} :
        \A i, j \in 1..Len(q) : i # j => q[i] # q[j]}

\* Arrays are objects: `shops` is array 1 and [...shops] makes array 2.
ShopsRef == 1
CopyOf_alias(ref) == ref
CopyOf(ref) == 2

SortIdle(shops, sort) ==
    [pc |-> "idle",
     arrays |-> <<shops, <<>>>>,
     activeSort |-> sort,
     ret |-> 0,            \* the array returned
     given |-> shops]      \* history: array 1 at the call

\* sortShops(shops): list = [...shops]; list.sort(comparator) sorts list in
\* place and returns it.
CallSortShops ==
    /\ sorting.pc = "idle"
    /\ LET list == CopyOf(ShopsRef)
       IN sorting' = [sorting EXCEPT
                         !.pc = "returned",
                         !.arrays[list] = sortShops(sorting.arrays[ShopsRef],
                                                    sorting.activeSort),
                         !.ret = list]
    /\ UNCHANGED <<now, shopsVars, shotVars, fetchVars, clientVars, preload, keyed, scriptVars>>

\* ===================================================== the cache, by path
\* const screenshotVersion = "v3"
screenshotVersion == "v3"
\* path.join(publicDir, "cache", "screenshots")
screenshotCacheDir == "public/cache/screenshots"

\* Target URLs of requests: different strings, two of them for one site.
KeyUrls == {"https://shop.example/", "https://shop.example", "https://other.example/"}

\* What is given to the hash.
Hashed_versionOnly(url) == screenshotVersion \o ":"
Hashed(url) == screenshotVersion \o ":" \o url

\* crypto.createHash("sha256").update(text).digest("hex"): a fixed function
\* that gives different texts different digests (64 hexadecimal digits, four
\* here).
Digests == {"0a1f", "5c3e", "9b72", "e4d8"}
HashedTexts == {Hashed(url) : url \in KeyUrls} \cup {Hashed_versionOnly("")}
sha256hex ==
    CHOOSE f \in [HashedTexts -> Digests] :
        \A a, b \in HashedTexts : a # b => f[a] # f[b]

cacheKeyForUrl(url) == sha256hex[Hashed(url)]

pathsForKey(cacheKey) ==
    [binPath |-> screenshotCacheDir \o "/" \o cacheKey \o ".bin",
     metaPath |-> screenshotCacheDir \o "/" \o cacheKey \o ".json"]

CachePaths ==
    UNION {{pathsForKey(d).binPath, pathsForKey(d).metaPath} : d \in Digests}

\* No file written, nothing read.
KeyedInit ==
    [store |-> [path \in CachePaths |-> ""],  \* the URL of the last write
     met |-> [url \in KeyUrls |-> {}]]         \* the writers a URL's reads met

\* readCacheEntry(cacheKey) of a request for url: both files are read.
KeyedRead(url) ==
    /\ LET paths == pathsForKey(cacheKeyForUrl(url))
       IN keyed' = [keyed EXCEPT
                       !.met[url] = @ \cup {keyed.store[paths.metaPath],
                                            keyed.store[paths.binPath]}]
    /\ UNCHANGED <<now, shopsVars, shotVars, fetchVars, clientVars, preload, sorting, scriptVars>>

\* writeCacheEntry(cacheKey, entry) of a request for url: the payload ...
KeyedWriteBin(url) ==
    /\ keyed' = [keyed EXCEPT
                    !.store[pathsForKey(cacheKeyForUrl(url)).binPath] = url]
    /\ UNCHANGED <<now, shopsVars, shotVars, fetchVars, clientVars, preload, sorting, scriptVars>>

\* ... and the metadata.
KeyedWriteMeta(url) ==
    /\ keyed' = [keyed EXCEPT
                    !.store[pathsForKey(cacheKeyForUrl(url)).metaPath] = url]
    /\ UNCHANGED <<now, shopsVars, shotVars, fetchVars, clientVars, preload, sorting, scriptVars>>

\* ================================================================ mapLimit
\* The limits the scripts pass: CONCURRENCY, or the concurrency of parseArgs,
\* which is DEFAULT_CONCURRENCY = Number(process.env.UNAVAILABLE_CONCURRENCY ||
\* 6), unvalidated, when the --concurrency flag is absent or invalid.
Limits == 0..MaxLimit

\* ToLength of Array.from({ length: x }, worker).
ToLength(x) == IF x < 0 THEN 0 ELSE x

\* The number of workers: Math.min(limit, items.length), as a length.
WorkerCount(limit, n) == ToLength(Min(limit, n))

\* items[i] and what fn(items[i], i) resolves to.
ItemAt(i) == 10 + i
ResultOf(item) == 2 * item

\* inv[i]: the call fn(items[i], i): none, pending, ok, fail; calls[i]: how
\* often it was made; out[i]: 0 for an empty slot; workers[w]: the item worker
\* w awaits, 0 once it has returned, -1 once it has thrown.
MlIdle == [pc |-> "idle", n |-> 0, limit |-> 0, idx |-> 0,
           inv |-> [i \in 1..MaxItems |-> "none"],
           calls |-> [i \in 1..MaxItems |-> 0],
           out |-> [i \in 1..MaxItems |-> 0],
           workers |-> <<>>]

\* worker(), from the loop test to the next await: `while (idx < items.length)
\* { const i = idx++; ... await fn(items[i], i)`, or the return.
Take(m, w) ==
    IF m.idx < m.n
    THEN [m EXCEPT !.idx = @ + 1, !.inv[m.idx + 1] = "pending",
                   !.calls[m.idx + 1] = @ + 1, !.workers[w] = m.idx + 1]
    ELSE [m EXCEPT !.workers[w] = 0]

\* Array.from({ length }, worker): the workers are started one after the
\* other, each running up to its first await.
RECURSIVE StartWorkers(_, _)
StartWorkers(m, k) == IF k = 0 THEN m ELSE Take(StartWorkers(m, k - 1), k)

\* Promise.all over the workers' promises, then `.then(() => out)`.
PromiseAll(m) ==
    IF m.pc # "running" THEN m
    ELSE IF \E w \in 1..Len(m.workers) : m.workers[w] = -1
    THEN [m EXCEPT !.pc = "rejected"]
    ELSE IF \A w \in 1..Len(m.workers) : m.workers[w] = 0
    THEN [m EXCEPT !.pc = "resolved"]
    ELSE m

\* mapLimit(items, limit, fn) is called on an array of n items.
MlCall(n, limit) ==
    /\ ml.pc = "idle"
    /\ ml' = PromiseAll(StartWorkers(
                 [MlIdle EXCEPT !.pc = "running", !.n = n, !.limit = limit,
                                !.workers = [w \in 1..WorkerCount(limit, n) |-> 0]],
                 WorkerCount(limit, n)))
    /\ UNCHANGED <<now, shopsVars, shotVars, fetchVars, clientVars, preload, sorting, keyed, pruning>>

\* fn(items[i], i) settles and the worker that awaits it goes on:
\* `out[i] = ...` and the next turn of its loop, or the rejection leaves it.
MlSettle(i, outcome) ==
    /\ ml.inv[i] = "pending"
    /\ LET w == CHOOSE w \in 1..Len(ml.workers) : ml.workers[w] = i IN
       ml' = IF outcome = "ok"
             THEN PromiseAll(Take([ml EXCEPT !.inv[i] = "ok",
                                             !.out[i] = ResultOf(ItemAt(i))], w))
             ELSE PromiseAll([ml EXCEPT !.inv[i] = "fail", !.workers[w] = -1])
    /\ UNCHANGED <<now, shopsVars, shotVars, fetchVars, clientVars, preload, sorting, keyed, pruning>>

\* ================================================== prune-unavailable-shops
\* JavaScript numbers as far as parseArgs tells them apart.
Num(v) == [finite |-> TRUE, v |-> v]
Infinity == [finite |-> FALSE, v |-> 1]
NaN == [finite |-> FALSE, v |-> 0]

\* Number(x) on the strings of the runs explored.
NumberOf(t) ==
    CASE t = "0" -> Num(0)
      [] t = "1" -> Num(1)
      [] t = "2" -> Num(2)
      [] OTHER -> NaN

\* Number(argv[i + 1] || dflt)
ArgOr(argv, i, dflt) == IF i + 1 <= Len(argv) THEN NumberOf(argv[i + 1]) ELSE dflt

\* The command lines and the values of UNAVAILABLE_CONCURRENCY ("": unset).
PruneArgvs ==
    {<<>>, <<"--apply">>, <<"--apply=true">>, <<"--limit", "1">>,
     <<"--limit", "--apply">>, <<"--apply", "--limit", "1">>,
     <<"--concurrency", "1", "--apply">>, <<"--timeout", "2", "--concurrency", "0">>}
ConcurrencyEnvs == {"", "0"}

\* Number(process.env.UNAVAILABLE_TIMEOUT_MS || 9000), the variable unset.
DEFAULT_TIMEOUT_MS == 9000
\* Number(process.env.UNAVAILABLE_CONCURRENCY || 6)
DEFAULT_CONCURRENCY(env) == IF env = "" THEN Num(6) ELSE NumberOf(env)

\* The for loop of parseArgs from token i on.
RECURSIVE ParseFrom(_, _, _, _)
ParseFrom(args, argv, i, env) ==
    IF i > Len(argv) THEN args
    ELSE LET token == argv[i]
             a1 == IF token = "--apply" THEN [args EXCEPT !.apply = TRUE] ELSE args
             a2 == IF token = "--limit"
                   THEN [a1 EXCEPT !.limit = ArgOr(argv, i, Infinity)] ELSE a1
             a3 == IF token = "--timeout"
                   THEN [a2 EXCEPT !.timeoutMs = ArgOr(argv, i, Num(DEFAULT_TIMEOUT_MS))]
                   ELSE a2
             a4 == IF token = "--concurrency"
                   THEN [a3 EXCEPT !.concurrency = ArgOr(argv, i, DEFAULT_CONCURRENCY(env))]
                   ELSE a3
         IN ParseFrom(a4, argv, i + 1, env)

\* Whether "--apply" sets args.apply.
ApplyOf_always(args) == TRUE
ApplyOf(args) == args.apply

parseArgs(argv, env) ==
    LET a == ParseFrom([apply |-> FALSE, limit |-> Infinity,
                        timeoutMs |-> Num(DEFAULT_TIMEOUT_MS),
                        concurrency |-> DEFAULT_CONCURRENCY(env)], argv, 1, env)
        limit == IF ~a.limit.finite \/ a.limit.v < 1 THEN Infinity ELSE a.limit
        timeout == IF ~a.timeoutMs.finite \/ a.timeoutMs.v < 1000
                   THEN Num(DEFAULT_TIMEOUT_MS) ELSE a.timeoutMs
        conc == IF ~a.concurrency.finite \/ a.concurrency.v < 1
                THEN DEFAULT_CONCURRENCY(env) ELSE a.concurrency
    IN [apply |-> ApplyOf(a), limit |-> limit, timeoutMs |-> timeout,
        concurrency |-> IF conc.finite THEN Num(Min(20, conc.v)) ELSE NaN]

\* notionData.items.slice(0, limit) of n items: how many.
SliceLen(n, limit) == IF limit.finite THEN Min(n, limit.v) ELSE n

\* What the network does with one shop's URL: a response (status, whether the
\* content type is text/html, the page), a failure of fetch, or no answer
\* before the timer aborts.
NoNet == [kind |-> "none", status |-> 0, html |-> FALSE, body |-> "", message |-> ""]
NetOutcomes ==
    {[kind |-> "response", status |-> 200, html |-> TRUE,
      body |-> "<p>Welcome</p>", message |-> ""],
     [kind |-> "response", status |-> 200, html |-> TRUE,
      body |-> "<h1>Page Not Found</h1>", message |-> ""],
     [kind |-> "response", status |-> 200, html |-> FALSE,
      body |-> "<h1>Page Not Found</h1>", message |-> ""],
     [kind |-> "response", status |-> 404, html |-> FALSE, body |-> "", message |-> ""],
     [kind |-> "response", status |-> 503, html |-> TRUE,
      body |-> "<p>Welcome</p>", message |-> ""],
     [kind |-> "error", status |-> 0, html |-> FALSE, body |-> "",
      message |-> "getaddrinfo ENOTFOUND shop.example"],
     [kind |-> "timeout", status |-> 0, html |-> FALSE, body |-> "",
      message |-> "This operation was aborted"]}

\* normalizeHtml on the pages of the runs explored: tags out, blanks trimmed.
normalizeHtml(html) ==
    CASE html = "<p>Welcome</p>" -> "Welcome"
      [] html = "<h1>Page Not Found</h1>" -> "Page Not Found"
      [] OTHER -> html

\* fetchWithTimeout: the result object of the try branch or of the catch.
NoResult == [ok |-> FALSE, status |-> 0, text |-> "", error |-> ""]
fetchWithTimeout(net) ==
    IF net.kind = "response"
    THEN [ok |-> net.status >= 200 /\ net.status <= 299, status |-> net.status,
          text |-> IF net.html THEN normalizeHtml(net.body) ELSE "", error |-> ""]
    ELSE [ok |-> FALSE, status |-> 0, text |-> "", error |-> net.message]

\* The first of UNAVAILABLE_PATTERNS (case-insensitive) that the text matches,
\* "" when none does.
PatternIn(text) ==
    CASE text = "Page Not Found" -> "page not found"
      [] text = "This store is unavailable" -> "this store is unavailable"
      [] OTHER -> ""

\* detectUnavailable: the reason, NoReason for null.
NoReason == ""
detectUnavailable_alsoErrors(result) ==
    IF result.status \in {404, 410} THEN "http:404"
    ELSE IF PatternIn(result.text) # "" THEN "match:page not found"
    ELSE IF ~result.ok /\ result.error # "" THEN "error"
    ELSE NoReason
detectUnavailable(result) ==
    IF result.status = 404 THEN "http:404"
    ELSE IF result.status = 410 THEN "http:410"
    ELSE IF PatternIn(result.text) = "page not found" THEN "match:page not found"
    ELSE IF PatternIn(result.text) # "" THEN "match:this store is unavailable"
    ELSE NoReason

\* withRetries(fn, 3)
attempts == 3

\* The run: the mapLimit call of main (as MlIdle) and, per shop, what the
\* network did, the result and the reason, the notion.pages.update calls made,
\* the pages Notion has archived, and matches, errors, archived of main.
PruneIdle ==
    [pc |-> "idle", n |-> 0, limit |-> 0, idx |-> 0,
     inv |-> [i \in 1..MaxPruneShops |-> "none"],
     calls |-> [i \in 1..MaxPruneShops |-> 0],
     out |-> [i \in 1..MaxPruneShops |-> 0],
     workers |-> <<>>,
     argv |-> <<>>, apply |-> FALSE,
     stage |-> [i \in 1..MaxPruneShops |-> "none"],
     net |-> [i \in 1..MaxPruneShops |-> NoNet],
     result |-> [i \in 1..MaxPruneShops |-> NoResult],
     reason |-> [i \in 1..MaxPruneShops |-> NoReason],
     updates |-> [i \in 1..MaxPruneShops |-> 0],
     notionArchived |-> {}, matches |-> <<>>, errors |-> <<>>, archived |-> 0]

\* A worker's fn call has begun: fetchWithTimeout(shop.url, timeoutMs) is
\* awaited for every shop a worker has just taken.
Begun(p) ==
    [p EXCEPT !.stage = [i \in 1..MaxPruneShops |->
                            IF p.inv[i] = "pending" /\ p.stage[i] = "none"
                            THEN "check" ELSE p.stage[i]]]

\* The callback returns for shop i: its worker stores the value and goes on.
Returned(p, i) ==
    LET w == CHOOSE w \in 1..Len(p.workers) : p.workers[w] = i IN
    Begun(PromiseAll(Take([p EXCEPT !.inv[i] = "ok", !.stage[i] = "done"], w)))

\* main, up to the first await inside mapLimit: the arguments are parsed, the
\* database of n shops is read and cut to the limit, the workers start.
PruneStart(argv, env, n) ==
    /\ pruning.pc = "idle"
    /\ LET args == parseArgs(argv, env)
           shops == SliceLen(n, args.limit)
           limit == IF args.concurrency.finite THEN args.concurrency.v ELSE 0
       IN pruning' = Begun(PromiseAll(StartWorkers(
              [PruneIdle EXCEPT !.pc = "running", !.n = shops, !.limit = limit,
                                !.argv = argv, !.apply = args.apply,
                                !.workers = [w \in 1..WorkerCount(limit, shops) |-> 0]],
              WorkerCount(limit, shops))))
    /\ UNCHANGED <<now, shopsVars, shotVars, fetchVars, clientVars, preload, sorting, keyed, ml>>

\* fetchWithTimeout returns for shop i; the callback goes on to its return or
\* to the first notion.pages.update.
CheckReturns(i, net) ==
    /\ pruning.stage[i] = "check"
    /\ LET result == fetchWithTimeout(net)
           reason == detectUnavailable(result)
           seen == [pruning EXCEPT !.net[i] = net, !.result[i] = result,
                                   !.reason[i] = reason]
           matched == [seen EXCEPT !.matches = Append(@, i)]
       IN pruning' = IF reason = NoReason THEN Returned(seen, i)
                     ELSE IF ~pruning.apply THEN Returned(matched, i)
                     ELSE [matched EXCEPT !.stage[i] = "update", !.updates[i] = 1]
    /\ UNCHANGED <<now, shopsVars, shotVars, fetchVars, clientVars, preload, sorting, keyed, ml>>

\* notion.pages.update({ page_id, archived: true }) settles for shop i: the
\* page is archived, or withRetries waits and calls again, or gives up.
UpdateSettles(i, outcome) ==
    /\ pruning.stage[i] = "update"
    /\ pruning' =
          IF outcome = "ok"
          THEN Returned([pruning EXCEPT !.notionArchived = @ \cup {i},
                                        !.archived = @ + 1], i)
          ELSE IF pruning.updates[i] < attempts
          THEN [pruning EXCEPT !.updates[i] = @ + 1]
          ELSE Returned([pruning EXCEPT !.errors = Append(@, i)], i)
    /\ UNCHANGED <<now, shopsVars, shotVars, fetchVars, clientVars, preload, sorting, keyed, ml>>

\* ========================================================= specifications
ShopsInit ==
    /\ payload = NULL
    /\ fetchedAt = 0
    /\ inflight = NULL
    /\ builds = <<>>
    /\ waiters = <<>>
    /\ micro = <<>>
    /\ rq = [r \in Reqs |-> IdleReq]

ShotInit ==
    /\ metaFile = NoMeta
    /\ binFile = NoBin
    /\ nPuts = 0
    /\ sq = [r \in ShotReqs |-> IdleShot]

\* fetchScreenshotBuffer has not been called on a list.
FetchIdle ==
    /\ screenshotProviders = <<>>
    /\ provIdx = 1
    /\ lastError = UnknownError
    /\ contacted = <<>>
    /\ fetched = Running

\* The module-level state of app.js as the script ends, load() under way.
PageInit ==
    /\ allShops = <<>>
    /\ filteredShops = <<>>
    /\ activeCategory = "all"
    /\ activeTag = "all"
    /\ activeSummary = ""
    /\ activeSort = "recent"
    /\ currentPage = 1
    /\ isAutoLoading = FALSE
    /\ gallery = <<>>
    /\ raf = <<>>
    /\ frame = <<>>
    /\ layout = "short"
    /\ loadPc = "fetch"
    /\ advances = 0
    /\ settled = TRUE

\* No script has been started.
ScriptInit ==
    /\ ml = MlIdle
    /\ pruning = PruneIdle

HelperInit ==
    /\ preload = PreIdle
    /\ sorting = SortIdle(<<>>, "recent")
    /\ keyed = KeyedInit
    /\ ScriptInit

\* sortShops is about to be called on a list, under an active sort.
SortInit ==
    /\ now = 1
    /\ ShopsInit
    /\ ShotInit
    /\ FetchIdle
    /\ PageInit
    /\ preload = PreIdle
    /\ keyed = KeyedInit
    /\ ScriptInit
    /\ sorting \in {SortIdle(shops, sort) : shops \in SortInputs, sort \in Sorts}

SortNext == CallSortShops

Init ==
    /\ now = 1
    /\ ShopsInit
    /\ ShotInit
    /\ FetchIdle
    /\ PageInit
    /\ HelperInit

ShopsNext ==
    \/ \E r \in Reqs : Arrive(r)
    \/ \E f \in 1..MaxReqs, outcome \in {"ok", "fail"} : Settle(f, outcome)
    \/ ThenCb
    \/ FinallyCb
    \/ Resume
    \/ Tick

ShotNext ==
    \/ \E r \in ShotReqs, q \in Queries : ShotArriveInvalid(r, q)
    \/ \E r \in ShotReqs, q \in Queries : ShotArrive(r, q)
    \/ \E r \in ShotReqs : ReadMeta(r)
    \/ \E r \in ShotReqs : ReadBin(r)
    \/ \E r \in ShotReqs, resp \in Responses : ProviderResponds(r, resp)
    \/ \E r \in ShotReqs : BinOpen(r)
    \/ \E r \in ShotReqs : BinWrite(r)
    \/ \E r \in ShotReqs : MetaOpen(r)
    \/ \E r \in ShotReqs : MetaWrite(r)
    \/ \E r \in ShotReqs : WriteFail(r)
    \/ ShotTick

\* The server starts on a cache directory that holds an earlier run's entry,
\* or damaged or missing artifacts.
ShotEnvInit ==
    /\ now = 1
    /\ ShopsInit
    /\ \/ /\ metaFile = LeftoverMeta
          /\ binFile = LeftoverBin
          /\ nPuts = 1
       \/ /\ metaFile \in DamagedMetas
          /\ binFile \in {NoBin, FullBin(0)}
          /\ nPuts = 0
       \/ /\ metaFile = FullMeta("image/jpeg", 1, 0)
          /\ binFile = NoBin
          /\ nPuts = 0
    /\ sq = [r \in ShotReqs |-> IdleShot]
    /\ FetchIdle
    /\ PageInit
    /\ HelperInit

\* fetchScreenshotBuffer is called on a list of at most MaxProviders providers.
FetchInit ==
    /\ now = 1
    /\ ShopsInit
    /\ ShotInit
    /\ PageInit
    /\ HelperInit
    /\ screenshotProviders \in UNION {[1..n -> Behaviours] : n \in 0..MaxProviders}
    /\ provIdx = 1
    /\ lastError = UnknownError
    /\ contacted = <<>>
    /\ fetched = Running

FetchNext == LoopTurn \/ LoopEnd

PageNext ==
    \/ \E n \in DatasetSizes : DatasetArrives(n)
    \/ PreloadSettles
    \/ LoadFails
    \/ ClickLoadMore
    \/ Scroll
    \/ Resize
    \/ SentinelIntersects
    \/ \E v \in Categories : SetCategory(v)
    \/ \E v \in TagChoices : SetTag(v)
    \/ \E v \in Summaries : SetSummary(v)
    \/ \E v \in Sorts : SetSort(v)
    \/ ResetFilters
    \/ AnimationFrame
    \/ RunAfterRender
    \/ RunClearFlag

PreloadNext ==
    \/ \E url \in ShopUrls : PreloadCall(url)
    \/ ImgLoad
    \/ ImgError
    \/ TimerFires
    \/ PreTick

KeyedNext ==
    \E url \in KeyUrls : KeyedRead(url) \/ KeyedWriteBin(url) \/ KeyedWriteMeta(url)

MapLimitNext ==
    \/ \E n \in 0..MaxItems, limit \in Limits : MlCall(n, limit)
    \/ \E i \in 1..MaxItems, outcome \in {"ok", "fail"} : MlSettle(i, outcome)

PruneNext ==
    \/ \E argv \in PruneArgvs, env \in ConcurrencyEnvs, n \in 0..MaxPruneShops :
          PruneStart(argv, env, n)
    \/ \E i \in 1..MaxPruneShops, net \in NetOutcomes : CheckReturns(i, net)
    \/ \E i \in 1..MaxPruneShops, outcome \in {"ok", "fail"} : UpdateSettles(i, outcome)

Next ==
    \/ ShopsNext \/ ShotNext \/ FetchNext \/ PageNext
    \/ PreloadNext \/ SortNext \/ KeyedNext
    \/ MapLimitNext \/ PruneNext

\* The dataset cache.
SpecShops == Init /\ [][ShopsNext]_vars
\* The dataset cache, the event loop draining the microtask queue: a queued
\* promise reaction runs.
SpecShopsLive ==
    /\ Init
    /\ [][ShopsNext]_vars
    /\ WF_vars(ThenCb)
    /\ WF_vars(FinallyCb)
    /\ WF_vars(Resume)
\* The screenshot cache on an empty directory.
SpecShot == Init /\ [][ShotNext]_vars
\* The screenshot cache on a directory as an earlier run or an outsider left it.
SpecShotEnv == ShotEnvInit /\ [][ShotNext]_vars
\* fetchScreenshotBuffer over provider lists.
SpecFetch == FetchInit /\ [][FetchNext]_vars
\* The page.
SpecPage == Init /\ [][PageNext]_vars
\* The page, the browser running the animation frames it was asked for and
\* each callback of a frame it has started.
SpecPageLive ==
    /\ Init
    /\ [][PageNext]_vars
    /\ WF_vars(AnimationFrame)
    /\ WF_vars(RunAfterRender)
    /\ WF_vars(RunClearFlag)
\* One preload.
SpecPreload == Init /\ [][PreloadNext]_vars
\* One preload, with time passing and the timer running when it is due.
SpecPreloadLive ==
    /\ Init
    /\ [][PreloadNext]_vars
    /\ WF_vars(PreTick)
    /\ WF_vars(TimerFires)
\* sortShops over lists and sorts.
SpecSort == SortInit /\ [][SortNext]_vars
\* Requests for several URLs on one cache directory.
SpecKeyed == Init /\ [][KeyedNext]_vars
\* One mapLimit call, the fn calls settling in any order.
SpecMapLimit == Init /\ [][MapLimitNext]_vars
\* One run of prune-unavailable-shops.
SpecPrune == Init /\ [][PruneNext]_vars
\* All of it.
Spec == Init /\ [][Next]_vars

\* ============================================================= properties
\* The fetches whose collaborator call has not settled.
Pending == {f \in 1..Len(builds) : builds[f] = "pending"}

\* The latest collaborator call failed and none was started since.
LastFetchFailed == Len(builds) > 0 /\ builds[Len(builds)] = "fail"

\* C1: the requests that reach getShopsPayload while no fresh snapshot exists
\* and a fetch has not settled all await one fetch, and the collaborator was
\* invoked once for it: every fetch has exactly one request that started it,
\* and the requests suspended together await the same fetch.
C1_OneFetchForAllCallers ==
    /\ \A r1, r2 \in Reqs :
         rq[r1].pc = "await" /\ rq[r2].pc = "await" => rq[r1].fetch = rq[r2].fetch
    /\ \A f \in 1..Len(builds) :
         Cardinality({r \in Reqs : rq[r].fetch = f /\ rq[r].via = "refresh"}) = 1
    /\ Len(builds) = Cardinality({r \in Reqs : rq[r].via = "refresh"})

\* Three requests wait on the one fetch that is still outstanding.
C1_Witness ==
    /\ Len(builds) = 1
    /\ builds[1] = "pending"
    /\ Cardinality({r \in Reqs : rq[r].pc = "await" /\ rq[r].fetch = 1}) >= 3

\* C2: the callers of one in-flight fetch see the same outcome: on success the
\* snapshot of that fetch (the initiator tagged notion-refresh, the joiners
\* memory-inflight); on failure all get the same old snapshot, or all get 500.
C2_JoinersShareOutcome ==
    \A r1, r2 \in Reqs :
        (/\ rq[r1].pc = "done"
         /\ rq[r2].pc = "done"
         /\ rq[r1].fetch # NULL
         /\ rq[r1].fetch = rq[r2].fetch)
        => LET f == rq[r1].fetch IN
           /\ rq[r1].status = rq[r2].status
           /\ rq[r1].body = rq[r2].body
           /\ builds[f] = "ok" =>
                /\ rq[r1].status = 200
                /\ rq[r1].body = f
                /\ rq[r1].tag = IF rq[r1].via = "refresh" THEN "notion-refresh"
                                ELSE "memory-inflight"
           /\ builds[f] = "fail" =>
                /\ rq[r1].body # f
                /\ \/ rq[r1].status = 500 /\ rq[r1].body = NULL /\ rq[r1].tag = "none"
                   \/ /\ rq[r1].status = 200
                      /\ rq[r1].body # NULL
                      /\ rq[r1].tag = "memory-stale-on-error"

\* The initiator and a joiner of a failed fetch have both been answered with
\* the snapshot of the earlier fetch.
C2_Witness ==
    \E r1, r2 \in Reqs :
        /\ r1 # r2
        /\ rq[r1].pc = "done" /\ rq[r2].pc = "done"
        /\ rq[r1].via = "refresh" /\ rq[r2].via = "join"
        /\ rq[r1].fetch = rq[r2].fetch
        /\ builds[rq[r1].fetch] = "fail"
        /\ rq[r1].tag = "memory-stale-on-error"

\* C3: at most one collaborator fetch is outstanding, shopsCache.inflight is its
\* promise for as long as it has not settled, and a fetch is started only
\* when shopsCache.inflight is null.
C3_SingleFlight ==
    /\ [](Cardinality(Pending) <= 1 /\ \A f \in Pending : inflight = f)
    /\ [][Len(builds') > Len(builds) => inflight = NULL]_vars

\* A second fetch is outstanding after the first one settled.
C3_Witness == Len(builds) >= 2 /\ Pending # {} /\ inflight # NULL

\* C4: when the fetch failed and a previous snapshot exists, however old, the
\* initiator and every joiner are answered 200 with that snapshot, tagged
\* memory-stale-on-error.
C4_StaleOnError ==
    [][\A r \in Reqs :
         (/\ rq[r].pc = "await"
          /\ rq'[r].pc = "done"
          /\ builds[rq[r].fetch] = "fail"
          /\ payload # NULL)
         => /\ rq'[r].status = 200
            /\ rq'[r].tag = "memory-stale-on-error"
            /\ rq'[r].body = payload]_vars

\* The initiator and a joiner of a failed fetch were both served a snapshot
\* older than the TTL.
C4_Witness ==
    \E r1, r2 \in Reqs :
        /\ rq[r1].via = "refresh" /\ rq[r2].via = "join"
        /\ rq[r1].tag = "memory-stale-on-error"
        /\ rq[r2].tag = "memory-stale-on-error"
        /\ now - fetchedAt > shopsCacheTtlMs

\* C5: shopsCache.payload and shopsCache.fetchedAt are written only by the
\* completion of a successful fetch, so a failed refresh leaves both as they
\* were; and the first request after a failed refresh starts a new fetch.
C5_FailedRefreshKeepsAge ==
    /\ [][(payload' # payload \/ fetchedAt' # fetchedAt)
            => /\ micro # <<>>
               /\ Head(micro).kind = "then"
               /\ builds[Head(micro).f] = "ok"
               /\ payload' = Head(micro).f
               /\ fetchedAt' = now]_vars
    /\ [][\A r \in Reqs :
            (rq[r].pc = "idle" /\ rq'[r].pc # "idle" /\ LastFetchFailed)
            => /\ Len(builds') = Len(builds) + 1
               /\ rq'[r].pc = "await"
               /\ rq'[r].via = "refresh"]_vars

\* A fetch failed while snapshot 1 was held, and the next request started a
\* third fetch.
C5_Witness ==
    /\ Len(builds) = 3
    /\ builds[2] = "fail"
    /\ payload = 1
    /\ builds[3] = "pending"

\* C6: a failed refresh with no previous snapshot is answered 500 {error,
\* details}; no request is answered 500 while a snapshot exists.
C6_FailurePropagates ==
    [][\A r \in Reqs :
         /\ (/\ rq[r].pc = "await"
             /\ rq'[r].pc = "done"
             /\ builds[rq[r].fetch] = "fail"
             /\ payload = NULL)
            => rq'[r].status = 500 /\ rq'[r].body = NULL
         /\ (rq[r].status # 500 /\ rq'[r].status = 500)
            => /\ payload = NULL
               /\ rq[r].pc = "await"
               /\ builds[rq[r].fetch] = "fail"]_vars

\* The initiator and a joiner of a failed first fetch were both answered 500.
C6_Witness ==
    \E r1, r2 \in Reqs :
        /\ rq[r1].via = "refresh" /\ rq[r2].via = "join"
        /\ rq[r1].status = 500 /\ rq[r2].status = 500

\* C7: a request that finds a snapshot whose age is within the TTL
\* (now - fetchedAt <= TTL) is answered at once with it, tagged memory-fresh,
\* without a collaborator call and without awaiting a fetch.
C7_FreshWithinTtl ==
    [][\A r \in Reqs :
         (/\ rq[r].pc = "idle"
          /\ rq'[r].pc # "idle"
          /\ payload # NULL
          /\ now - fetchedAt <= shopsCacheTtlMs)
         => /\ rq'[r].pc = "done"
            /\ rq'[r].tag = "memory-fresh"
            /\ rq'[r].body = payload
            /\ builds' = builds
            /\ waiters' = waiters]_vars
\* What request r's two reads return when this step is the one that completes
\* them: the content read earlier, or the file as it is now.
MetaSeen(r) == IF sq[r].metaRead # Unread THEN sq[r].metaRead ELSE metaFile
BinSeen(r) == IF sq[r].binRead # UnreadBin THEN sq[r].binRead ELSE binFile

\* This step is the one in which request r's readCacheEntry returns.
ReadReturns(r) == sq[r].pc = "read" /\ sq'[r].pc # "read"

\* C8: on a stored entry (metadata and full payload of one writeCacheEntry
\* call) readCacheEntry returns the content type and the body unchanged when
\* now - fetchedAt <= TTL, and absent when now - fetchedAt > TTL, the two
\* artifacts staying on storage as they are.
C8_FreshIffWithinTtl ==
    [][\A r \in ShotReqs :
         (/\ ReadReturns(r)
          /\ MetaSeen(r).kind = "json"
          /\ MetaSeen(r).put # 0
          /\ BinSeen(r) = FullBin(MetaSeen(r).put))
         => /\ metaFile' = metaFile
            /\ binFile' = binFile
            /\ IF now - MetaSeen(r).fetchedAt <= screenshotTtlMs
               THEN /\ sq'[r].pc = "done"
                    /\ sq'[r].status = 200
                    /\ sq'[r].contentType = MetaSeen(r).contentType
                    /\ sq'[r].body = BinSeen(r)
               ELSE /\ sq'[r].pc = "fetch"
                    /\ sq'[r].status = 0]_vars

\* Nothing was written since the start on a stored entry: one request was
\* served that entry, and a later one, past the TTL, was not and is fetching,
\* while both artifacts are still there.
C8_Witness ==
    /\ nPuts = 1
    /\ metaFile = LeftoverMeta
    /\ binFile = LeftoverBin
    /\ now - LeftoverMeta.fetchedAt > screenshotTtlMs
    /\ \E r1, r2 \in ShotReqs :
         /\ sq[r1].pc = "done"
         /\ sq[r1].status = 200
         /\ sq[r1].contentType = "IMAGE/PNG"
         /\ sq[r1].body = LeftoverBin
         /\ sq[r2].pc = "fetch"

\* Artifacts that readCacheEntry cannot use: a file missing, the metadata
\* unparsable, without fetchedAt or contentType, or of a type that is no image.
Unusable(meta, bin) ==
    \/ meta.kind \in {"none", "garbage"}
    \/ bin.kind = "none"
    \/ meta.fetchedAt = 0
    \/ meta.contentType = ""
    \/ meta.contentType \notin {"IMAGE/PNG", "image/png", "image/jpeg"}

\* C9: readCacheEntry never raises (the step in which it returns never ends the
\* request with an error), and on unusable artifacts it returns absent: the
\* request goes on to the providers exactly as one that found nothing.
C9_ReadFailsSoft ==
    [][\A r \in ShotReqs :
         ReadReturns(r)
         => /\ sq'[r].status \in {0, 200}
            /\ sq'[r].lastError = "none"
            /\ Unusable(MetaSeen(r), BinSeen(r))
               => sq'[r] = [IdleShot EXCEPT !.pc = "fetch", !.prov = 1,
                                            !.targetUrl = sq[r].targetUrl]]_vars

\* A request is fetching after it read metadata of a type that is no image,
\* beside a payload, both files being as the server found them.
C9_Witness ==
    /\ nPuts = 0
    /\ metaFile = FullMeta("text/html", 1, 0)
    /\ binFile = FullBin(0)
    /\ \E r \in ShotReqs : sq[r].pc = "fetch"

\* C10: readCacheEntry never returns a content type of one writeCacheEntry call
\* with the body of another call or with a partially written body.
C10_NoTornEntry ==
    [][\A r \in ShotReqs :
         (ReadReturns(r) /\ sq'[r].status = 200)
         => /\ MetaSeen(r).put = BinSeen(r).put
            /\ BinSeen(r).full]_vars

\* This step is the one in which request r's response is sent.
Responds(r) == sq[r].status = 0 /\ sq'[r].status # 0

\* C11: a request for a valid URL that reads a fresh entry is answered from it,
\* with no provider request and no cache write; one that reads no fresh entry
\* goes to the providers, and once a provider has delivered, the response is
\* sent in the step that completes the second of the request's two writes.
C11_CacheThenFetchThenPersist ==
    [][\A r \in ShotReqs :
         /\ ReadReturns(r)
            => IF readCacheEntry(MetaSeen(r), BinSeen(r)) = "entry"
               THEN /\ sq'[r].pc = "done"
                    /\ sq'[r].status = 200
                    /\ sq'[r].put = 0
                    /\ <<metaFile, binFile, nPuts>>' = <<metaFile, binFile, nPuts>>
               ELSE /\ sq'[r].pc = "fetch"
                    /\ sq'[r].status = 0
         /\ (Responds(r) /\ sq[r].put # 0)
            => \/ sq[r].wbin = 2 /\ sq[r].wmeta = 1
                  /\ metaFile' = FullMeta(sq[r].contentType, sq[r].fetchedAt, sq[r].put)
               \/ sq[r].wmeta = 2 /\ sq[r].wbin = 1
                  /\ binFile' = FullBin(sq[r].put)]_vars

\* C12: a request whose last provider is rejected ends with 502 and no body,
\* whatever the two artifacts hold, and leaves them as they are; and a
\* request is served from the cache only on metadata whose age is within
\* the TTL.
C12_NoStaleFallback ==
    [][\A r \in ShotReqs :
         /\ (sq[r].pc = "fetch" /\ sq'[r].pc = "done")
            => /\ sq'[r].status = 502
               /\ sq'[r].body = NoBin
               /\ <<metaFile, binFile>>' = <<metaFile, binFile>>
         /\ (ReadReturns(r) /\ sq'[r].status = 200)
            => now - MetaSeen(r).fetchedAt <= screenshotTtlMs]_vars

\* The entry the server started on has expired and is still on storage,
\* untouched, and a request has ended with 502 after its provider was rejected.
C12_Witness ==
    /\ nPuts = 1
    /\ metaFile = LeftoverMeta
    /\ binFile = LeftoverBin
    /\ now - LeftoverMeta.fetchedAt > screenshotTtlMs
    /\ \E r \in ShotReqs :
         /\ sq[r].status = 502
         /\ sq[r].lastError \in {"exception", "Provider failed", "non-image content",
                                  "empty image"}

\* Why a provider's answer is rejected, "none" if it is not: a network
\* exception, a non-success status, a content type that is no image, an empty
\* body.  A response without the header counts as image/jpeg.
RejectionOf(b) ==
    CASE b.kind = "throw" -> "exception"
      [] b.kind = "response" /\ ~b.ok -> "Provider failed"
      [] b.kind = "response" /\ b.ok /\ b.header = "text/html" -> "non-image content"
      [] b.kind = "response" /\ b.ok /\ b.header # "text/html" /\ b.empty -> "empty image"
      [] OTHER -> "none"

\* The providers whose turn has come.
Reached == IF fetched.kind = "return" THEN provIdx ELSE provIdx - 1

\* C13: the providers are asked in list order, each one only after all the
\* ones before it were rejected; the call returns on the first answer that is
\* not rejected, with that answer's content type and body, which are an
\* image type and not empty, and asks no provider after it; an exception of a
\* provider is a rejection and never ends the call before the list does.
C13_FirstAcceptedInOrder ==
    /\ \A k \in 1..Len(contacted) :
         /\ contacted[k] \in 1..Reached
         /\ k > 1 => contacted[k - 1] < contacted[k]
         /\ (k < Len(contacted) \/ fetched.kind # "return")
            => RejectionOf(screenshotProviders[contacted[k]]) # "none"
    /\ \A i \in 1..Reached :
         screenshotProviders[i].kind # "nourl" => \E k \in 1..Len(contacted) : contacted[k] = i
    /\ fetched.kind = "return"
       => /\ contacted # <<>>
          /\ LET b == screenshotProviders[contacted[Len(contacted)]] IN
               /\ RejectionOf(b) = "none"
               /\ b.kind = "response"
               /\ fetched.contentType = (IF b.header = "" THEN "image/jpeg" ELSE b.header)
               /\ fetched.contentType \in {"image/jpeg", "IMAGE/PNG"}
               /\ ~b.empty
               /\ ~fetched.empty
    /\ fetched.kind = "throw" => provIdx = Len(screenshotProviders) + 1
    /\ (fetched.kind = "running" /\ provIdx > Len(screenshotProviders))
       => \A i \in 1..Len(screenshotProviders) :
            RejectionOf(screenshotProviders[i]) # "none"
            \/ screenshotProviders[i].kind = "nourl"

\* The first provider threw, the second was asked and its image returned.
C13_Witness ==
    /\ Len(screenshotProviders) = 2
    /\ screenshotProviders[1].kind = "throw"
    /\ contacted = <<1, 2>>
    /\ fetched.kind = "return"
    /\ fetched.contentType = "IMAGE/PNG"

C15_InvalidUrlOnly400 ==
    [][\A r \in ShotReqs :
         /\ (sq[r].pc = "idle" /\ sq'[r].pc # "idle"
             /\ sq'[r].targetUrl \in {"", "shop", "ftp://shop.example/"})
            => /\ sq'[r] = [IdleShot EXCEPT !.pc = "done", !.status = 400,
                                            !.targetUrl = sq'[r].targetUrl]
               /\ <<metaFile, binFile, nPuts>>' = <<metaFile, binFile, nPuts>>
         /\ sq[r].status = 400 => sq'[r] = sq[r]]_vars

\* A request for an ftp URL was answered 400; another request, for the shop's
\* https URL, is being worked on.
C15_Witness ==
    \E r1, r2 \in ShotReqs :
        /\ sq[r1].status = 400
        /\ sq[r1].targetUrl = "ftp://shop.example/"
        /\ sq[r2].pc = "write"

\* C16: a request for a valid URL is answered 502 only after its last provider
\* was rejected (which is after it read no fresh entry); a request for which a
\* provider delivered a usable image is answered 200 with that image and its
\* content type.
C16_502OnlyWithoutImage ==
    [][\A r \in ShotReqs :
         /\ (Responds(r) /\ sq'[r].status = 502)
            => /\ sq[r].pc = "fetch"
               /\ sq[r].put = 0
         /\ (Responds(r) /\ sq[r].put # 0)
            => /\ sq'[r].status = 200
               /\ sq'[r].body = FullBin(sq[r].put)
               /\ sq'[r].contentType = sq[r].contentType]_vars

\* The "clearFlag" callbacks that wait for their frame or for their turn in it.
PendingClears ==
    Cardinality({k \in 1..Len(frame) : frame[k] = "clearFlag"})
    + Cardinality({k \in 1..Len(raf) : raf[k] = "clearFlag"})

\* C17: a click on load-more, which is one call of loadMore, adds exactly 1 to
\* currentPage when fewer than all filtered shops are shown, the gallery then
\* showing PAGE_SIZE more of them or all, and changes nothing of the page
\* otherwise; and no step takes currentPage past the first page that shows
\* all filtered shops.
C17_LoadMoreByOne ==
    [][/\ ClickLoadMore
          => LET n == Len(filteredShops)
                 seen == IF n < currentPage * PAGE_SIZE THEN n
                         ELSE currentPage * PAGE_SIZE
             IN IF seen < n
                THEN /\ currentPage' = currentPage + 1
                     /\ Len(gallery') = (IF n < seen + PAGE_SIZE THEN n ELSE seen + PAGE_SIZE)
                     /\ filteredShops' = filteredShops
                ELSE UNCHANGED pageVars
       /\ currentPage' > currentPage
          => (currentPage' - 1) * PAGE_SIZE < Len(filteredShops)]_vars

\* The largest dataset, unfiltered, is shown whole on its last page, which
\* is the third at least.
C17_Witness ==
    /\ Len(filteredShops) = MaxShops
    /\ currentPage >= 3
    /\ (currentPage - 1) * PAGE_SIZE < MaxShops
    /\ Len(gallery) = MaxShops
    /\ loadPc = "ready"

\* C18: a step that changes the category, the tag, the text filter or the
\* sort, or that resets the filters, leaves currentPage at 1; a step that
\* raises currentPage leaves the three filters, the sort and filteredShops
\* as they were.
C18_FiltersResetPage ==
    [][/\ (\/ activeCategory' # activeCategory
           \/ activeTag' # activeTag
           \/ activeSummary' # activeSummary
           \/ activeSort' # activeSort
           \/ ResetFilters)
          => currentPage' = 1
       /\ currentPage' > currentPage
          => UNCHANGED <<activeCategory, activeTag, activeSummary, activeSort,
                         filteredShops>>]_vars

\* The category filter is set and the page is 1 while the flag of an
\* auto-load is still set: the auto-load had taken the page to 2 or more, and
\* the filter change that came before its flag was cleared took it back to 1.
C18_Witness ==
    /\ isAutoLoading
    /\ currentPage = 1
    /\ activeCategory = "Fashion"
    /\ Len(filteredShops) > 2 * PAGE_SIZE

\* C19: while isAutoLoading is set, a scroll, a resize or a sentinel
\* intersection leaves currentPage and the flag as they are and registers no
\* callback; the post-render callback raises currentPage only through
\* ensureViewportFilled (the page being short, by 1); the flag is cleared only
\* by the callback maybeAutoLoad registered, of which exactly one is waiting
\* while the flag is set.
C19_OneAutoLoadPerFlag ==
    [][isAutoLoading
       => /\ PendingClears = 1
          /\ (Scroll \/ Resize \/ SentinelIntersects)
             => /\ currentPage' = currentPage
                /\ isAutoLoading'
                /\ raf' = raf
          /\ RunAfterRender
             => /\ isAutoLoading'
                /\ advances' = advances
                /\ \/ currentPage' = currentPage
                   \/ currentPage' = currentPage + 1 /\ shortPage(layout)
          /\ ~isAutoLoading' => (frame # <<>> /\ Head(frame) = "clearFlag")]_vars

\* The flag is set, shops remain, the viewport is near the bottom, and the
\* latest user action, a signal that came after the flag was set, has raised
\* nothing.
C19_Witness ==
    /\ isAutoLoading
    /\ currentPage >= 2
    /\ advances = 0
    /\ frame = <<>>
    /\ hasMoreShops(filteredShops, currentPage)
    /\ nearBottom(layout)

\* C20: for a click on load-more, a scroll, a resize or a sentinel
\* intersection that began while no callback was waiting, so that every
\* callback run since descends from it, the page increments made since it
\* began, not counting those of ensureViewportFilled, are at most 1.
C20_AtMostOnePerAction == settled => advances <= 1

\* Shops remain undisclosed and the document is no taller than the viewport
\* plus 120px.
Underfilled == hasMoreShops(filteredShops, currentPage) /\ shortPage(layout)

\* No callback waits for a frame and no frame is running.
AtRest == raf = <<>> /\ frame = <<>>

\* A step of the browser's animation frames; every other step of the page is
\* one of the user (a click, a scroll, a resize, a sentinel intersection, a
\* change of a filter or of the sort, a reset) or of load().
FrameStep == AnimationFrame \/ RunAfterRender \/ RunClearFlag

\* C21: the post-render callback that finds the page underfilled raises
\* currentPage and renders again, which registers the next callback; the
\* page never rests underfilled; and once the user's and load()'s steps have
\* ceased, the page ends, for good, with all filtered shops shown or the
\* document taller than the viewport plus the margin.
C21_ViewportGetsFilled ==
    /\ [][(RunAfterRender /\ Underfilled)
          => /\ currentPage' > currentPage
             /\ raf' # raf
             /\ Len(gallery') > Len(gallery)]_vars
    /\ [](AtRest => ~Underfilled)
    /\ ([]<><<~FrameStep>>_vars) \/ <>[](AtRest /\ ~Underfilled)

\* After the dataset's arrival the post-render checks alone took the page to
\* the fourth, ensureViewportFilled making at least one of the increments,
\* and the page rests with all shops shown.
C21_Witness ==
    /\ loadPc = "ready"
    /\ ~settled
    /\ advances < 3
    /\ currentPage = 4
    /\ Len(gallery) = MaxShops
    /\ layout = "short"
    /\ AtRest

\* C22: a preload is settled, by one resolve(), once more than timeoutMs has
\* passed since the call, whatever the primary and the fallback did; and with
\* time passing every preload that was called gets settled.
C22_SettlesWithinTimeout ==
    /\ []((preload.pc = "called" /\ preload.elapsed > timeoutMs)
            => (preload.settled /\ preload.resolves = 1))
    /\ (preload.pc = "called") ~> preload.settled

\* Neither URL ever answered and the timer settled the preload when it was due.
C22_Witness ==
    /\ preload.settled
    /\ preload.timer = "fired"
    /\ preload.loads = 0
    /\ preload.errors = 0
    /\ preload.elapsed = timeoutMs

\* C23: resolve() is called at most once, settled says whether it was, and a
\* call of finish on a settled preload changes neither.
C23_FinishIdempotent ==
    /\ [](preload.resolves <= 1 /\ (preload.settled <=> preload.resolves = 1))
    /\ [][(preload.settled /\ preload'.finishes > preload.finishes)
          => (preload'.settled /\ preload'.resolves = preload.resolves)]_vars

\* The timer settled the preload and the event of the Image that came after
\* it called finish a second time.
C23_Witness ==
    /\ preload.timer = "fired"
    /\ preload.finishes = 2
    /\ preload.resolves = 1

\* C24: img.src is given the fallback URL at most once, by the handler of the
\* primary's error event; a load of the primary settles with the Image still on
\* the primary; after the switch a load or an error settles and leaves the
\* Image alone.
C24_FallbackOnce ==
    /\ [](preload.switches <= 1)
    /\ [][preload'.switches > preload.switches
          => /\ preload.src = Href(preload.primaryUrl)
             /\ preload.loads = 0
             /\ preload.errors = 0 /\ preload'.errors = 1]_vars
    /\ [][(preload.switches = 0 /\ preload'.loads > preload.loads)
          => /\ preload'.settled
             /\ preload'.src = Href(preload.primaryUrl)
             /\ preload'.switches = 0
             /\ ~preload'.pending]_vars
    /\ [][(preload.switches = 1
            /\ preload'.loads + preload'.errors > preload.loads + preload.errors)
          => /\ preload'.settled
             /\ preload'.src = preload.src
             /\ preload'.switches = 1
             /\ ~preload'.pending]_vars

\* The primary failed, the fallback failed too, and its error handler settled
\* the preload before the timer was due.
C24_Witness ==
    /\ preload.switches = 1
    /\ preload.errors = 2
    /\ preload.settled
    /\ preload.timer = "cleared"
    /\ preload.src = Href(preload.fallbackUrl)
    /\ preload.src # Href(preload.primaryUrl)

\* computeFilteredShops of every dataset under every setting of the controls.
FilteredLists ==
    [n \in DatasetSizes \cup {0}, category \in Categories, tag \in TagChoices,
     summary \in Summaries, sort \in Sorts
        |-> computeFilteredShops([i \in 1..n |-> i], category, tag, summary, sort)]

\* The first visibleCount shops of allShops filtered and sorted as the
\* controls stand.
ShouldShow ==
    LET list == FilteredLists[Len(allShops), activeCategory, activeTag,
                              activeSummary, activeSort]
    IN SubSeq(list, 1, Min(Len(list), currentPage * PAGE_SIZE))

\* C25: whenever load() is not between the dataset's arrival and its render,
\* the gallery shows the first visibleCount shops of the current allShops under
\* the current filters and sort; and every step that changes the cards, the
\* page, a filter or the sort leaves the gallery showing that of the new state.
C25_GalleryIsCurrent ==
    /\ [](loadPc # "preload" => gallery = ShouldShow)
    /\ [][(<<gallery, currentPage, activeCategory, activeTag, activeSummary,
             activeSort>>' # <<gallery, currentPage, activeCategory, activeTag,
                               activeSummary, activeSort>>)
          => gallery' = ShouldShow']_vars

\* A filtered, re-sorted list on its second page, short of the third.
C25_Witness ==
    /\ loadPc = "ready"
    /\ activeCategory = "Fashion"
    /\ activeSort = "az"
    /\ currentPage = 2
    /\ Len(gallery) > PAGE_SIZE
    /\ Len(gallery) < Len(allShops)
    /\ gallery # SubSeq(allShops, 1, Len(gallery))

\* The position of shop x in list.
PosIn(list, x) == CHOOSE i \in 1..Len(list) : list[i] = x

\* C26: the array sortShops returns holds the shops of its argument, each
\* once, in the order of the active key (title for az and za, edit time for
\* oldest and recent; ascending for az and oldest, descending for the others),
\* shops of equal key in the order the argument had them; and the argument is
\* as it was.
C26_SortedStableCopy ==
    sorting.pc = "returned" =>
        LET in == sorting.given
            out == sorting.arrays[sorting.ret]
            key(x) == IF sorting.activeSort \in {"az", "za"}
                      THEN TitleOf(x) ELSE EditedAtOf(x)
            ascending == sorting.activeSort \in {"az", "oldest"}
        IN /\ Len(out) = Len(in)
           /\ {out[i] : i \in 1..Len(out)} = {in[i] : i \in 1..Len(in)}
           /\ \A i, j \in 1..Len(out) :
                i < j => /\ IF ascending THEN key(out[i]) <= key(out[j])
                                         ELSE key(out[i]) >= key(out[j])
                         /\ key(out[i]) = key(out[j])
                              => PosIn(in, out[i]) < PosIn(in, out[j])
           /\ sorting.arrays[ShopsRef] = in

\* A descending sort by title that had to reorder its argument and to keep two
\* shops of one title in their order.
C26_Witness ==
    /\ sorting.pc = "returned"
    /\ sorting.activeSort = "za"
    /\ sorting.given = <<1, 2, 8>>
    /\ sorting.arrays[sorting.ret] = <<2, 1, 8>>
    /\ sorting.ret # ShopsRef

\* C27: an artifact that exists is never removed; the artifacts change only in
\* steps of a request that is in writeCacheEntry, which it enters with the
\* image a provider delivered; and a request answered 400, or 502 because
\* every provider was rejected, never entered it.
C27_OnlyFetchedImagesAreStored ==
    /\ [][/\ metaFile # NoMeta => metaFile' # NoMeta
          /\ binFile # NoBin => binFile' # NoBin]_vars
    /\ [][(metaFile' # metaFile \/ binFile' # binFile)
          => \E r \in ShotReqs :
                /\ sq[r].pc = "write"
                /\ sq[r].put > 0
                /\ StartsWithImage(ToLowerCase(sq[r].contentType))
                /\ sq'[r] # sq[r]]_vars
    /\ [](\A r \in ShotReqs :
            (/\ sq[r].pc = "done"
             /\ \/ sq[r].status = 400
                \/ sq[r].status = 502 /\ sq[r].lastError # "write failed")
            => (sq[r].put = 0 /\ sq[r].wmeta = 0 /\ sq[r].wbin = 0))

\* The stored entry had expired, the provider was rejected, the request was
\* answered 502 and the expired entry is still there, whole.
C27_Witness ==
    /\ sq[1].pc = "done"
    /\ sq[1].status = 502
    /\ sq[1].lastError # "write failed"
    /\ metaFile = LeftoverMeta
    /\ binFile = LeftoverBin
    /\ nPuts = 1

\* C28: once no request is inside writeCacheEntry and at least two have been
\* through it, the two artifacts are whole and were written by one and the
\* same writeCacheEntry call.
C28_EntryOfOneFetch ==
    (/\ \A r \in ShotReqs : sq[r].pc \in {"idle", "done"}
     /\ Cardinality({r \in ShotReqs : sq[r].status = 200 /\ sq[r].put > 0}) >= 2)
    => /\ metaFile.kind = "json"
       /\ binFile.kind = "data"
       /\ binFile.full
       /\ metaFile.put = binFile.put

\* C29: while load() awaits the warm-up of a dataset that has shops, the
\* gallery already shows shops.
C29_RenderDoesNotAwaitWarmUp ==
    (loadPc = "preload" /\ allShops # <<>>) => gallery # <<>>

\* C30: different URLs have different keys and no artifact path in common;
\* every file was last written by a request for the URL whose paths it is
\* among; and the reads of a request for a URL meet only files that no one has
\* written or that a request for the same URL wrote.
C30_KeysSeparateUrls ==
    /\ \A u1, u2 \in KeyUrls :
         u1 # u2 =>
            /\ cacheKeyForUrl(u1) # cacheKeyForUrl(u2)
            /\ {pathsForKey(cacheKeyForUrl(u1)).binPath,
                pathsForKey(cacheKeyForUrl(u1)).metaPath}
               \cap {pathsForKey(cacheKeyForUrl(u2)).binPath,
                     pathsForKey(cacheKeyForUrl(u2)).metaPath} = {}
    /\ \A path \in CachePaths :
         keyed.store[path] # ""
            => path \in {pathsForKey(cacheKeyForUrl(keyed.store[path])).binPath,
                         pathsForKey(cacheKeyForUrl(keyed.store[path])).metaPath}
    /\ \A url \in KeyUrls : keyed.met[url] \subseteq {"", url}

\* The two URLs of one site have each stored an entry and read it back.
C30_Witness ==
    /\ keyed.met["https://shop.example/"] = {"https://shop.example/"}
    /\ keyed.met["https://shop.example"] = {"https://shop.example"}
    /\ Cardinality({path \in CachePaths : keyed.store[path] # ""}) = 6

\* The state of the dataset cache in the words of its state machine.
CacheState ==
    IF inflight # NULL THEN "FETCHING"
    ELSE IF payload = NULL THEN "EMPTY"
    ELSE IF isFreshCache THEN "READY"
    ELSE "STALE"

\* The fetch whose callback is next in the microtask queue, NULL without one.
SettlingFetch == IF micro = <<>> THEN NULL ELSE Head(micro).f

\* C31 as stated: the cache state changes only along EMPTY -> FETCHING,
\* FETCHING -> READY, READY -> STALE and STALE -> FETCHING.
C31_OnlyTheChain ==
    [][CacheState' # CacheState =>
          <<CacheState, CacheState'>> \in
              {<<"EMPTY", "FETCHING">>, <<"FETCHING", "READY">>,
               <<"READY", "STALE">>, <<"STALE", "FETCHING">>}]_vars

\* C31: the cache state changes only in these ways: a request that starts a
\* fetch takes EMPTY or STALE to FETCHING; the end of a successful fetch takes
\* FETCHING to READY; the end of a failed fetch takes FETCHING back to EMPTY
\* when there is no snapshot and to STALE when there is one; the passing of
\* time takes READY to STALE.
C31_CacheStateMachine ==
    [][CacheState' # CacheState =>
          \/ /\ CacheState \in {"EMPTY", "STALE"}
             /\ CacheState' = "FETCHING"
             /\ Len(builds') = Len(builds) + 1
          \/ /\ CacheState = "FETCHING"
             /\ CacheState' = "READY"
             /\ builds[SettlingFetch] = "ok"
          \/ /\ CacheState = "FETCHING"
             /\ CacheState' = "EMPTY"
             /\ builds[SettlingFetch] = "fail"
             /\ payload = NULL
          \/ /\ CacheState = "FETCHING"
             /\ CacheState' = "STALE"
             /\ builds[SettlingFetch] = "fail"
             /\ payload # NULL
          \/ /\ CacheState = "READY"
             /\ CacheState' = "STALE"
             /\ now' > now]_vars

\* A first fetch succeeded, its snapshot went stale, a refresh failed and the
\* next refresh succeeded: the cache is READY with the third fetch's snapshot.
C31_Witness ==
    /\ builds = <<"ok", "fail", "ok">>
    /\ CacheState = "READY"
    /\ payload = 3

\* The fetches started so far that have settled.
SettledFetches == {f \in 1..Len(builds) : builds[f] # "pending"}

\* C32: the slot of a started refresh changes only by being released, and only
\* after the collaborator call settled; once the call has settled the slot is
\* released; every request that awaits a settled fetch is answered with its
\* outcome (the new snapshot on success; the old snapshot or a 500 on failure);
\* and a request that then arrives at a cache that is not fresh starts a fetch.
C32_RefreshReleasesSlot ==
    /\ [][inflight # NULL /\ inflight' # inflight
             => inflight' = NULL /\ inflight \in SettledFetches]_vars
    /\ \A f \in 1..MaxReqs : (f \in SettledFetches) ~> (inflight # f)
    /\ \A r \in Reqs :
         (rq[r].pc = "await" /\ rq[r].fetch \in SettledFetches)
            ~> /\ rq[r].pc = "done"
               /\ rq[r].fetch # NULL
               /\ IF builds[rq[r].fetch] = "ok"
                  THEN rq[r].status = 200 /\ rq[r].body = rq[r].fetch
                  ELSE rq[r].tag \in {"memory-stale-on-error", "none"}
    /\ [][\A r \in Reqs :
             Arrive(r) /\ inflight = NULL /\ ~isFreshCache
                => inflight' = Len(builds) + 1 /\ builds'[inflight'] = "pending"]_vars

\* A fetch failed, the request that started it and the one that joined it were
\* answered, and a third request has started the next fetch.
C32_Witness ==
    /\ builds = <<"fail", "pending">>
    /\ inflight = 2
    /\ \E r1, r2 \in Reqs :
         /\ rq[r1].via = "refresh" /\ rq[r1].fetch = 1 /\ rq[r1].pc = "done"
         /\ rq[r2].via = "join" /\ rq[r2].fetch = 1 /\ rq[r2].pc = "done"

\* Request r is answered 200 in this step.
Answers200(r) == rq[r].pc # "done" /\ rq'[r].pc = "done" /\ rq'[r].status = 200

\* The age, at the time of the step, of the snapshot the cache holds.
SnapshotAge == now - fetchedAt

\* C33: every 200 answer carries the snapshot the cache holds at that moment;
\* when that snapshot is older than the TTL the tag is memory-stale-on-error
\* and the fetch the request awaited failed; an answer tagged memory-fresh,
\* memory-inflight or notion-refresh carries a snapshot no older than the TTL;
\* and one tagged notion-refresh or memory-inflight carries the snapshot of the
\* fetch the request awaited, stored in this very turn of the event loop.
C33_SourceTagIsTruthful ==
    [][\A r \in Reqs :
          Answers200(r) =>
             /\ rq'[r].body = payload
             /\ payload # NULL
             /\ SnapshotAge > shopsCacheTtlMs
                   => /\ rq'[r].tag = "memory-stale-on-error"
                      /\ builds[rq[r].fetch] = "fail"
             /\ rq'[r].tag \in {"memory-fresh", "memory-inflight", "notion-refresh"}
                   => SnapshotAge <= shopsCacheTtlMs
             /\ rq'[r].tag = "memory-fresh" => rq[r].pc = "idle"
             /\ rq'[r].tag = "memory-inflight"
                   => /\ rq[r].via = "join"
                      /\ builds[rq[r].fetch] = "ok"
                      /\ rq'[r].body = rq[r].fetch
                      /\ SnapshotAge = 0
             /\ rq'[r].tag = "notion-refresh"
                   => /\ rq[r].via = "refresh"
                      /\ builds[rq[r].fetch] = "ok"
                      /\ rq'[r].body = rq[r].fetch
                      /\ SnapshotAge = 0
             /\ rq'[r].tag = "memory-stale-on-error"
                   => rq[r].pc = "await" /\ builds[rq[r].fetch] = "fail"]_vars

\* All four tags have been sent, the stale one with a snapshot older than the
\* TTL.
C33_Witness ==
    /\ {rq[r].tag : r \in Reqs} \ {"none"}
          = {"notion-refresh", "memory-stale-on-error", "memory-inflight"}
    /\ \E r \in Reqs :
          /\ rq[r].tag = "memory-stale-on-error"
          /\ rq[r].body = payload
          /\ SnapshotAge > shopsCacheTtlMs

\* C34: every 200 of GET /api/screenshot carries a content type that begins
\* with image/ (in any spelling of the letters) and the whole payload of one
\* writeCacheEntry call, never a file that a write has opened and not yet
\* filled (which holds no bytes at first).
C34_200IsAnImage ==
    \A r \in ShotReqs :
       sq[r].status = 200
          => /\ StartsWithImage(ToLowerCase(sq[r].contentType))
             /\ sq[r].body.kind = "data"
             /\ sq[r].body.full

\* C35: the page is at least 1; the gallery holds min(filteredCount, page * 12)
\* cards; a page beyond the first begins inside the filtered list; the page
\* changes only upwards over an unchanged filtered list, the number of visible
\* shops growing with it, or back to 1.
C35_PageWithinList ==
    /\ [](currentPage >= 1)
    /\ [](Len(gallery) = visibleCount(filteredShops, currentPage))
    /\ [](visibleCount(filteredShops, currentPage)
             = Min(Len(filteredShops), currentPage * 12))
    /\ [](currentPage > 1 => (currentPage - 1) * 12 < Len(filteredShops))
    /\ [][currentPage' > currentPage
             => /\ filteredShops' = filteredShops
                /\ visibleCount(filteredShops', currentPage')
                      > visibleCount(filteredShops, currentPage)]_vars
    /\ [][currentPage' < currentPage => currentPage' = 1]_vars

\* The last page of the largest dataset is shown in part, nothing is left to
\* load.
C35_Witness ==
    /\ Len(filteredShops) = MaxShops
    /\ currentPage * PAGE_SIZE > MaxShops
    /\ (currentPage - 1) * PAGE_SIZE < MaxShops
    /\ currentPage > 2
    /\ Len(gallery) = MaxShops

\* The animation-frame callbacks that have not run, in the order they will.
Callbacks == frame \o raf

\* The places of the flag's resets among them.
ClearFlagsIn(q) == {i \in 1..Len(q) : q[i] = "clearFlag"}

\* C36: the step that sets isAutoLoading registers the post-render checks of
\* the render it makes and, right behind them, the one reset of the flag; while
\* the flag is set exactly one reset waits and none waits while it is clear;
\* the flag is cleared only by that reset, run as the first of the waiting
\* callbacks, hence after the checks registered before it; and a set flag is
\* cleared eventually.
C36_FlagClearedAfterRender ==
    /\ [][(~isAutoLoading /\ isAutoLoading')
             => \E i \in 2..Len(Callbacks') :
                   /\ ClearFlagsIn(Callbacks') = {i}
                   /\ Callbacks'[i - 1] = "afterRender"
                   /\ i - 1 > Len(Callbacks) - (IF frame' # frame THEN 1 ELSE 0)]_vars
    /\ [](Cardinality(ClearFlagsIn(Callbacks)) = IF isAutoLoading THEN 1 ELSE 0)
    /\ [][(isAutoLoading /\ ~isAutoLoading')
             => /\ frame # <<>>
                /\ Head(frame) = "clearFlag"
                /\ frame' = Tail(frame)]_vars
    /\ isAutoLoading ~> ~isAutoLoading

\* An auto-load has raised the page, the checks of its render have run and the
\* reset of the flag is the next callback of the running frame.
C36_Witness ==
    /\ isAutoLoading
    /\ currentPage >= 2
    /\ frame # <<>>
    /\ Head(frame) = "clearFlag"

\* The fn calls of the mapLimit call that have not settled.
Outstanding == {i \in 1..MaxItems : ml.inv[i] = "pending"}

\* C38: at most min(limit, len(items)) fn calls are outstanding at a time; no
\* item is given to fn twice, and once the call has been made and nothing is
\* outstanding every item has been given to fn; a resolved call has every fn
\* call completed and its result in the slot of its item.
C38_MapLimit ==
    /\ Cardinality(Outstanding) <= Min(ml.limit, ml.n)
    /\ \A i \in 1..MaxItems : ml.calls[i] <= 1
    /\ (ml.pc # "idle" /\ Outstanding = {}) => \A i \in 1..ml.n : ml.calls[i] = 1
    /\ ml.pc = "resolved"
          => \A i \in 1..ml.n : ml.inv[i] = "ok" /\ ml.out[i] = ResultOf(ItemAt(i))

\* The command line has the token --apply.
HasApplyToken == \E k \in 1..Len(pruning.argv) : pruning.argv[k] = "--apply"

\* C37: in a run without --apply no notion.pages.update call is made and no
\* page is archived; in any run, update calls are made and pages archived only
\* for shops for which detectUnavailable returned a reason on the result of
\* their check; and for a shop whose check ended in a network error or in the
\* timeout no update call is made.
C37_ArchivesOnlyDetected ==
    \A i \in 1..MaxPruneShops :
       /\ ~HasApplyToken => pruning.updates[i] = 0 /\ pruning.notionArchived = {}
       /\ i \in pruning.notionArchived => pruning.updates[i] > 0
       /\ pruning.updates[i] > 0
             => /\ pruning.net[i] # NoNet
                /\ pruning.reason[i] # NoReason
                /\ pruning.reason[i] = detectUnavailable(pruning.result[i])
       /\ pruning.net[i].kind \in {"error", "timeout"} => pruning.updates[i] = 0

\* A run with --apply has ended: one shop answered 404 and was archived, the
\* check of the other ran into the timeout and Notion was not called for it.
C37_Witness ==
    /\ pruning.pc = "resolved"
    /\ HasApplyToken
    /\ \E i, j \in 1..MaxPruneShops :
          /\ pruning.net[i].status = 404
          /\ i \in pruning.notionArchived
          /\ pruning.net[j].kind = "timeout"
          /\ pruning.updates[j] = 0
          /\ pruning.stage[j] = "done"
====
